---- MODULE Spec2Model ----
(***************************************************************************)
(* Multi-iteration orchestration and statistical aggregation of the       *)
(* multi-agent decision framework (src/App.tsx, services/geminiService,   *)
(* components/SummaryPanel).                                               *)
(*                                                                         *)
(* The specifications of this module:                                      *)
(*   Spec         one simulation run: runSimulation,                       *)
(*                runDiscussionAndDecision and runSingleIteration, one     *)
(*                action per continuation of the async code (what runs     *)
(*                when an awaited call returns);                           *)
(*   SpecSettings the same run with every temperature and search setting;  *)
(*   SpecInvoker  runAgent called once;                                    *)
(*   SpecStats    the statistics and decision code applied to score lists; *)
(*   SpecSession  the runs of a session: proposal loads, restarts, Q&A;    *)
(*   SpecGuard    truncatePromptIfNeeded applied to texts and budgets.     *)
(*                                                                         *)
(* Numbers.  Scores are integers.  A quotient the code computes in         *)
(* floating point is kept exact as a scaled integer: the median as twice   *)
(* its value, the variance as n^3 times its value.                         *)
(***************************************************************************)
EXTENDS Integers, Sequences, FiniteSets, TLC

VARIABLES
    numberOfIterations, \* frameworkConfig.iterations
    configs,            \* ids of the agents originalAgentConfigs has an entry for
    hasUrl,             \* whether the loaded proposal carries a url
    temperature,        \* frameworkConfig.temperature, in tenths; Undefined if absent
    useGoogleSearch,    \* the search toggle
    pc,                 \* where the run stands: the await it is suspended at
    isSimulating,
    finalDecision,      \* [isLoading, kind, result]: the finalDecision state
    discussionMessages, \* the live discussion view
    isDiscussionLoading,
    expertOpinions,
    independentEvaluations,
    iteration,          \* loop variable i of runDiscussionAndDecision
    turn,               \* loop variable of runSingleIteration
    expertIndex,        \* position in expertAgentIds
    discussionHistory,  \* transcript of the running iteration
    pending,            \* calls started and not yet returned
    classification,     \* classificationPromise: "none", "pending", or its result text
    summaryResult,      \* summaryResult.result
    failures,           \* failed calls so far
    scoringContents,    \* evaluationContent of each scoring call returned so far
    requests,           \* generation calls in flight: what generateContent was given
    metrics,            \* the FrameworkMetrics object of the run
    phase1Metrics,      \* classMetrics and summaryResult.metrics
    returned,           \* per agent, the metrics each of its runAgent calls returned
    statPc,         \* SpecStats: "input", "computed", "rendered" ("unused" under Spec)
    statScores,     \* SpecStats: the list of feasibility scores
    statResult,     \* SpecStats: the finalResult object built from statScores
    statRendered,   \* SpecStats: what renderFinalDecision shows for statResult
    statPanel,      \* SpecStats: median and confidence the SummaryPanel shows
    invPc,          \* SpecInvoker: "input", "calling", "returned" ("unused" elsewhere)
    invAgentId,     \* SpecInvoker: the agentId runAgent is called with
    invRequest,     \* SpecInvoker: the generation call in flight
    invReturn,      \* SpecInvoker: what runAgent returned
    guardPc,        \* SpecGuard: "input", "once", "twice" ("unused" elsewhere)
    guardText,      \* SpecGuard: the prompt handed to truncatePromptIfNeeded
    guardBudget,    \* SpecGuard: maxTokens
    guardOnce,      \* SpecGuard: the guard's result
    guardTwice,     \* SpecGuard: the guard's result for its own result
    proposal,       \* SpecSession: whether a proposal is loaded (the proposal state)
    initialContext, \* SpecSession: whether the context of a run has been stored
    agentConfigs,   \* SpecSession: per expert, the systemInstruction in agentConfigs
    frameworkMetrics, \* SpecSession: the metrics object exposed for reports
    runs,           \* SpecSession: the orchestration runs started so far
    fileReads,      \* SpecSession: FileReader reads in flight
    useGeminiPro,   \* SpecSession: the model toggle
    qa              \* SpecSession: activeTab, isQaLoading, the experts qaMessages reports as updated

statVars == <<statPc, statScores, statResult, statRendered, statPanel>>

invVars == <<invPc, invAgentId, invRequest, invReturn>>

guardVars == <<guardPc, guardText, guardBudget, guardOnce, guardTwice>>

sessVars ==
    <<proposal, initialContext, agentConfigs, frameworkMetrics, runs, fileReads,
      useGeminiPro, qa>>

\* what the specifications of single runs, statistics and invocations leave alone
otherVars == <<guardVars, sessVars>>

inputVars == <<numberOfIterations, configs, hasUrl, temperature, useGoogleSearch>>

runVars ==
    <<pc, isSimulating, finalDecision, discussionMessages, isDiscussionLoading,
      expertOpinions, independentEvaluations, iteration, turn, expertIndex,
      discussionHistory, pending, classification, summaryResult, failures,
      scoringContents, requests, metrics, phase1Metrics, returned>>

vars == <<inputVars, runVars, statVars, invVars, guardVars, sessVars>>

----------------------------------------------------------------------------
(* Bounds of the model *)

\* longest score list SpecStats enumerates
MaxScores == 3

\* largest configured iteration count
MaxIterations == 2

\* most calls (generation calls, the URL fetch) that fail in one run
MaxFailures == 1

----------------------------------------------------------------------------
(* Program constants *)

ProceedThreshold == 70
CautionThreshold == 50
HighConfidenceDeviation == 5
MediumConfidenceDeviation == 15
RenderProceedAbove == 80
RenderCautionFrom == 50
RenderNotRecommendedFrom == 30
NeutralScore == 50

\* JavaScript `undefined` as a feasibilityScore: the value of
\* parsedEval.feasibilityScore when the parsed output has no such field.
\* It is no element of any set of numeric scores below.
Undefined == -1000

IsNumber(x) == x # Undefined

----------------------------------------------------------------------------
(* Statistics: App.tsx 416-450 *)

\* scores.reduce((sum, score) => sum + score, 0), for numeric scores
RECURSIVE SumScores(_)
SumScores(scores) ==
    IF scores = <<>> THEN 0 ELSE Head(scores) + SumScores(Tail(scores))

HasUndefined(scores) == \E k \in 1..Len(scores) : scores[k] = Undefined

\* comparator (a, b) => a - b; Array.prototype.sort keeps undefined elements last
SortsBefore(a, b) == b = Undefined \/ (a # Undefined /\ a <= b)

RECURSIVE InsertSorted(_, _)
InsertSorted(x, sorted) ==
    IF sorted = <<>> THEN <<x>>
    ELSE IF SortsBefore(x, Head(sorted)) THEN <<x>> \o sorted
    ELSE <<Head(sorted)>> \o InsertSorted(x, Tail(sorted))

RECURSIVE SortAscending(_)
SortAscending(scores) ==
    IF scores = <<>> THEN <<>>
    ELSE InsertSorted(Head(scores), SortAscending(Tail(scores)))

\* mutant of SortedCopy: scores.sort(...) sorts the list itself
SortedInPlace(scores) ==
    [sorted |-> SortAscending(scores), scores |-> SortAscending(scores)]

\* const sortedScores = [...scores].sort((a, b) => a - b): the sort works on a
\* copy; `scores` is the list as the statement leaves it
SortedCopy(scores) ==
    [sorted |-> SortAscending(scores), scores |-> scores]

NaN == [kind |-> "NaN", twice |-> 0]
UndefinedValue == [kind |-> "undefined", twice |-> 0]
Number2(twice) == [kind |-> "number", twice |-> twice]

\* a + b of two array elements, doubled or not by the caller; NaN when either
\* operand is undefined (an element past the ends of the array is undefined)
ElementAt(sorted, k) ==
    IF k \in 1..Len(sorted) THEN sorted[k] ELSE Undefined

\* mutant of MedianOf: the middle element for every length (Agent_flow.md's pseudocode)
MedianOfUpperMiddle(sortedScores) ==
    LET mid == Len(sortedScores) \div 2
        m == ElementAt(sortedScores, mid + 1)
    IN  IF m = Undefined THEN UndefinedValue ELSE Number2(2 * m)

\* mid = floor(length / 2); median = length % 2 === 0
\*    ? (sorted[mid - 1] + sorted[mid]) / 2 : sorted[mid]     (0-based indices)
MedianOf(sortedScores) ==
    LET mid == Len(sortedScores) \div 2
        lo == ElementAt(sortedScores, mid)
        hi == ElementAt(sortedScores, mid + 1)
    IN  IF Len(sortedScores) % 2 = 0
        THEN IF lo = Undefined \/ hi = Undefined THEN NaN ELSE Number2(lo + hi)
        ELSE IF hi = Undefined THEN UndefinedValue ELSE Number2(2 * hi)

\* sum of (score - mean)^2 over the list, times n^2: each term is (n*score - sum)^2
RECURSIVE SumSquaredDeviations(_, _, _)
SumSquaredDeviations(scores, sum, n) ==
    IF scores = <<>> THEN 0
    ELSE (n * Head(scores) - sum) * (n * Head(scores) - sum)
         + SumSquaredDeviations(Tail(scores), sum, n)

\* mutant of VarianceOf: the sample variance, divisor n - 1
VarianceOfSample(scores) ==
    LET n == Len(scores)
    IN  IF n < 2 \/ HasUndefined(scores) THEN [kind |-> "NaN", num |-> 0, den |-> 1]
        ELSE [kind |-> "number",
              num  |-> SumSquaredDeviations(scores, SumScores(scores), n),
              den  |-> n * n * (n - 1)]

\* variance = scores.reduce((sum, s) => sum + Math.pow(s - mean, 2), 0) / scores.length,
\* as the fraction num / den; NaN for an empty list (0 / 0) or an undefined score
VarianceOf(scores) ==
    LET n == Len(scores)
    IN  IF n = 0 \/ HasUndefined(scores) THEN [kind |-> "NaN", num |-> 0, den |-> 1]
        ELSE [kind |-> "number",
              num  |-> SumSquaredDeviations(scores, SumScores(scores), n),
              den  |-> n * n * n]

\* Math.sqrt(variance) <= limit; false for NaN
DeviationAtMost(variance, limit) ==
    /\ variance.kind = "number"
    /\ variance.num <= limit * limit * variance.den

\* let confidenceLevel = 'Low'; if (sd <= 5) 'High'; else if (sd <= 15) 'Medium'
ConfidenceLevelOf(variance) ==
    IF DeviationAtMost(variance, HighConfidenceDeviation) THEN "High"
    ELSE IF DeviationAtMost(variance, MediumConfidenceDeviation) THEN "Medium"
    ELSE "Low"

\* median >= threshold; false for NaN and undefined
MedianAtLeast(median, threshold) ==
    median.kind = "number" /\ median.twice >= 2 * threshold

\* let decision = 'Do not proceed'; if (median >= 70) 'Proceed';
\* else if (median >= 50) 'Proceed with Caution'
DecisionOf(median) ==
    IF MedianAtLeast(median, ProceedThreshold) THEN "Proceed"
    ELSE IF MedianAtLeast(median, CautionThreshold) THEN "Proceed with Caution"
    ELSE "Do not proceed"

\* the statistics block of finalResult, from the list of scores
StatisticsOf(scores) ==
    LET n == Len(scores)
        median == MedianOf(SortedCopy(scores).sorted)
        variance == VarianceOf(SortedCopy(scores).scores)
    IN  [mean |-> IF n = 0 \/ HasUndefined(scores)
                  THEN [kind |-> "NaN", num |-> 0, den |-> 1]
                  ELSE [kind |-> "number", num |-> SumScores(scores), den |-> n],
         median |-> median,
         variance |-> variance,
         confidenceLevel |-> ConfidenceLevelOf(variance)]

\* finalResult (439-450) over the scores of the evaluations; `scores` is carried
\* to show the list the computation leaves behind
FinalResultOf(scores) ==
    LET statistics == StatisticsOf(scores)
    IN  [decision |-> DecisionOf(statistics.median),
         medianScore |-> statistics.median,
         scores |-> SortedCopy(scores).scores,
         statistics |-> statistics]

\* median.toFixed(1) in the justification throws a TypeError when median is undefined
JustificationThrows(scores) ==
    MedianOf(SortedCopy(scores).sorted).kind = "undefined"

----------------------------------------------------------------------------
(* Rendering: App.tsx 853-877, components/SummaryPanel *)

\* Math.round(parsed.statistics.median) after the JSON round trip of the content:
\* JSON.stringify writes NaN as null and Math.round(null) is 0;
\* Math.round rounds a half up
RoundedMedian(median) ==
    IF median.kind = "number" THEN (median.twice + 1) \div 2 ELSE 0

RenderedRecommendation(result) ==
    LET medianScore == RoundedMedian(result.statistics.median)
    IN  IF medianScore > RenderProceedAbove THEN "Proceed"
        ELSE IF medianScore >= RenderCautionFrom THEN "Proceed with Caution"
        ELSE IF medianScore >= RenderNotRecommendedFrom THEN "Not Recommended"
        ELSE "Do Not Proceed"

\* SummaryPanel's calculateMedian: 0 for an empty list
calculateMedian(scores) ==
    IF Len(scores) = 0 THEN Number2(0) ELSE MedianOf(SortedCopy(scores).sorted)

\* SummaryPanel's calculateConfidenceLevel: 'Low' for an empty list
calculateConfidenceLevel(scores) ==
    IF Len(scores) = 0 THEN "Low" ELSE ConfidenceLevelOf(VarianceOf(scores))

----------------------------------------------------------------------------
(* Texts and the token guard: App.tsx 107-141 *)

\* A text is the sequence of its lines, joined by newlines; a line is known by
\* what it holds (part, ref) and by its length in characters.
Line(part, ref, len) == [part |-> part, ref |-> ref, len |-> len]

BlankLine == Line("blank", <<>>, 0)

\* `[... previous content truncated to fit token limit ...]`
MarkerLine == Line("marker", <<>>, 55)

RECURSIVE SumLengths(_)
SumLengths(lines) ==
    IF lines = <<>> THEN 0 ELSE Head(lines).len + SumLengths(Tail(lines))

\* text.length: the lines and the newlines between them
TextLength(lines) ==
    IF lines = <<>> THEN 0 ELSE SumLengths(lines) + Len(lines) - 1

MAX_CONTEXT_TOKENS == 12000

\* countTokens = Math.ceil(text.length / 4), from the length
countTokens(length) == (length + 3) \div 4

\* index of the newline that ends line k (0-based, as prompt[splitIndex])
NewlineAfter(lines, k) == TextLength(SubSeq(lines, 1, k))

\* mutant of truncatePromptIfNeeded: the guard cuts whatever the length
truncateAlways(prompt) ==
    <<MarkerLine, BlankLine, BlankLine>> \o Tail(prompt)

\* mutant of truncatePromptTo: the guard cuts whatever the length
truncateWhateverLength(prompt, maxTokens) ==
    <<MarkerLine, BlankLine, BlankLine>> \o Tail(prompt)

\* mutant of truncatePromptTo: the cut is the last newline of the prompt at or
\* after charsToRemove, not the first
truncateAtLastNewline(prompt, maxTokens) ==
    LET currentTokens == countTokens(TextLength(prompt))
        charsToRemove == (currentTokens - maxTokens) * 4
        cuts == {k \in 1..(Len(prompt) - 1) : NewlineAfter(prompt, k) >= charsToRemove}
        splitLine == CHOOSE k \in cuts : \A other \in cuts : k >= other
        truncatedPrompt ==
            IF cuts = {} THEN <<BlankLine>>
            ELSE <<BlankLine>> \o SubSeq(prompt, splitLine + 1, Len(prompt))
    IN  IF currentTokens <= maxTokens THEN prompt
        ELSE <<MarkerLine, BlankLine>> \o truncatedPrompt

\* truncatePromptIfNeeded(prompt, maxTokens): the cut is the first newline at or
\* after charsToRemove, or the end of the text; the remainder starts with that
\* newline, and the marker and its two newlines precede it.  (A text is its
\* lines; a text that ends with a newline ends with an empty line.)
truncatePromptTo(prompt, maxTokens) ==
    LET currentTokens == countTokens(TextLength(prompt))
        charsToRemove == (currentTokens - maxTokens) * 4
        cuts == {k \in 1..(Len(prompt) - 1) : NewlineAfter(prompt, k) >= charsToRemove}
        splitLine == CHOOSE k \in cuts : \A other \in cuts : k <= other
        truncatedPrompt ==
            IF cuts = {} THEN <<BlankLine>>
            ELSE <<BlankLine>> \o SubSeq(prompt, splitLine + 1, Len(prompt))
    IN  IF currentTokens <= maxTokens THEN prompt
        ELSE <<MarkerLine, BlankLine>> \o truncatedPrompt

\* truncatePromptIfNeeded(prompt) with the default budget
truncatePromptIfNeeded(prompt) == truncatePromptTo(prompt, MAX_CONTEXT_TOKENS)

----------------------------------------------------------------------------
(* One simulation run: App.tsx 212-615 *)

discussionTurns == 2

NoResult == [decision |-> "none"]

expertAgentIds == <<"expert_1", "expert_2", "expert_3">>

classificationAgent == "proposal_classification_agent"
summarizeAgentId == "proposal_information_summarize_agent"
finalAgentId == "final_decision_agent"
trackerAgentId == "framework_tracker_agent"

Agents ==
    {classificationAgent, summarizeAgentId, finalAgentId, trackerAgentId}
        \cup {expertAgentIds[k] : k \in 1..Len(expertAgentIds)}

\* agent_config.json as loaded: complete, or lacking one agent's entry
ConfigChoices == {Agents} \cup {Agents \ {a} : a \in Agents}

\* a call in flight; iteration 0 for the calls outside the iteration loop
Call(agentId, i) == [agentId |-> agentId, iteration |-> i]

\* the text runAgent returns: generated text, or runAgentQuery's
\* "Error: Could not get response ..." when the generation call failed
ReplyTexts == {"reply"} \cup (IF failures < MaxFailures THEN {"Error"} ELSE {})

Failed(text) == IF text = "Error" THEN 1 ELSE 0

----------------------------------------------------------------------------
(* The agent invoker: runAgent (App.tsx 58-105) over runAgentQuery *)

\* id.startsWith('expert_')
IsExpertAgent(agentId) ==
    \E k \in 1..Len(expertAgentIds) : expertAgentIds[k] = agentId

forceZeroTempAgents == {classificationAgent, summarizeAgentId}

\* mutant of finalTemperature: no agent is forced to temperature 0
finalTemperatureUnforced(agentId, runTemperature) == runTemperature

\* forceZeroTempAgents.includes(agentId) ? 0 : temperature
\* (temperatures in tenths; Undefined when frameworkConfig has none)
finalTemperature(agentId, runTemperature) ==
    IF agentId \in forceZeroTempAgents THEN 0 ELSE runTemperature

\* runAgentQuery: config.temperature !== undefined ? config.temperature : 0
QueryTemperature(configTemperature) ==
    IF configTemperature # Undefined THEN configTemperature ELSE 0

\* mutant of AttachesSearchTool: the search tool goes with every call
AttachesSearchToolAlways(useSearch) == TRUE

\* runAgentQuery: if (config.useGoogleSearch) tools.push({ googleSearch: {} })
AttachesSearchTool(useSearch) == useSearch

\* mutant of ConfigFound: runAgent goes on without looking for the config
ConfigFoundAlways(agentId, configsGiven) == TRUE

\* const config = configs[agentId]; if (!config) ... (64-65)
ConfigFound(agentId, configsGiven) == agentId \in configsGiven

\* what ai.models.generateContent is called with, in the call runAgent makes
\* for agentId; ref tells the calls of one agent apart
GenerationRequest(agentId, ref, prompt, useSearch, runTemperature) ==
    [agentId |-> agentId,
     ref |-> ref,
     prompt |-> prompt,
     tools |-> AttachesSearchTool(useSearch),
     temperature |-> QueryTemperature(finalTemperature(agentId, runTemperature))]

\* the texts that start with "Error:": runAgentQuery's catch, runAgent without a config
ConfigNotFoundText == "Error: Config not found"

StartsWithError(text) == text \in {"Error", ConfigNotFoundText}

\* length in characters of a result: the error text of runAgentQuery's catch,
\* the literal null, a JSON object, or generated prose
ResultChars(text) ==
    CASE text = "Error" -> 88
      [] text = "null" -> 4
      [] text = "json" -> 300
      [] OTHER -> 10000

\* a metrics object without googleSearchUsage
NoSearchUsage ==
    [present |-> FALSE, used |-> FALSE, queriesCount |-> 0, sourcesCount |-> 0,
     queries |-> <<>>, sources |-> <<>>]

\* googleSearchMetadata of a response without grounding metadata, and of the catch
NoGrounding ==
    [present |-> TRUE, used |-> FALSE, queriesCount |-> 0, sourcesCount |-> 0,
     queries |-> <<>>, sources |-> <<>>]

\* googleSearchMetadata of a grounded response: here one query and two sources,
\* named after the call
Grounding(ref) ==
    [present |-> TRUE, used |-> TRUE, queriesCount |-> 1, sourcesCount |-> 2,
     queries |-> <<ref>>, sources |-> <<ref \o <<1>>, ref \o <<2>>>>]

\* the metadata runAgentQuery returns (90-119, 137-140): in the model a call
\* that has the search tool and succeeds comes back grounded
SearchMetadataOf(request, text) ==
    IF request.tools /\ text # "Error" THEN Grounding(request.ref) ELSE NoGrounding

\* endTime - startTime, in the model's time unit: a failed call returns sooner
ElapsedFor(text) == IF text = "Error" THEN 1 ELSE 2

\* { duration: 0, tokenUsage: { inputTokens: 0, outputTokens: 0 } }
ZeroMetrics ==
    [duration |-> 0, inputTokens |-> 0, outputTokens |-> 0,
     googleSearchUsage |-> NoSearchUsage]

\* what runAgent returns when it found no config (65-68): no call is made
ConfigNotFoundReturn ==
    [result |-> ConfigNotFoundText, called |-> FALSE, metrics |-> ZeroMetrics]

\* what runAgent returns after runAgentQuery returned text (88-104): the time
\* elapsed, the token estimates of the prompt and of the result, the metadata
RunAgentReturn(request, text) ==
    [result |-> text,
     called |-> TRUE,
     metrics |-> [duration |-> ElapsedFor(text),
                  inputTokens |-> countTokens(TextLength(request.prompt)),
                  outputTokens |-> countTokens(ResultChars(text)),
                  googleSearchUsage |-> SearchMetadataOf(request, text)]]

----------------------------------------------------------------------------
(* Metrics accumulation: App.tsx 246-286, 317-325, 555-559 *)

\* the FrameworkMetrics object runSimulation creates (495-506)
NewMetrics ==
    [agentBreakdown |-> [a \in {} |-> ZeroMetrics],
     totalInputTokens |-> 0,
     totalOutputTokens |-> 0,
     googleSearchSummary |-> [totalUsageCount |-> 0, totalQueries |-> 0,
                              totalSources |-> 0, agentsUsed |-> <<>>]]

\* the entry an expert gets before its first call is counted (247-251)
ExpertEntryDefault ==
    [duration |-> 0, inputTokens |-> 0, outputTokens |-> 0,
     googleSearchUsage |-> NoGrounding]

\* the entry the scoring agent gets before its first call is counted (318-320)
FinalEntryDefault == ZeroMetrics

EntryOf(breakdown, agentId, default) ==
    IF agentId \in DOMAIN breakdown THEN breakdown[agentId] ELSE default

WithEntry(breakdown, agentId, entry) ==
    [a \in DOMAIN breakdown \cup {agentId} |->
        IF a = agentId THEN entry ELSE breakdown[a]]

\* mutant of AddCounts: the counts of the last call replace the entry's
AddCountsOverwriting(entry, agentMetrics) ==
    [entry EXCEPT !.duration = agentMetrics.duration,
                  !.inputTokens = agentMetrics.inputTokens,
                  !.outputTokens = agentMetrics.outputTokens]

\* duration += ...; tokenUsage.inputTokens += ...; tokenUsage.outputTokens += ...
AddCounts(entry, agentMetrics) ==
    [entry EXCEPT !.duration = @ + agentMetrics.duration,
                  !.inputTokens = @ + agentMetrics.inputTokens,
                  !.outputTokens = @ + agentMetrics.outputTokens]

\* mutant of MergeSearchUsage: the lists of the last call come first
MergeSearchUsageReversed(current, agentMetrics) ==
    IF ~agentMetrics.present THEN current
    ELSE [present |-> TRUE,
          used |-> current.used \/ agentMetrics.used,
          queriesCount |-> current.queriesCount + agentMetrics.queriesCount,
          sourcesCount |-> current.sourcesCount + agentMetrics.sourcesCount,
          queries |-> agentMetrics.queries \o current.queries,
          sources |-> agentMetrics.sources \o current.sources]

\* the block under if (agentMetrics.googleSearchUsage) (257-272)
MergeSearchUsage(current, agentMetrics) ==
    IF ~agentMetrics.present THEN current
    ELSE [present |-> TRUE,
          used |-> current.used \/ agentMetrics.used,
          queriesCount |-> current.queriesCount + agentMetrics.queriesCount,
          sourcesCount |-> current.sourcesCount + agentMetrics.sourcesCount,
          queries |-> current.queries \o agentMetrics.queries,
          sources |-> current.sources \o agentMetrics.sources]

\* mutant of SummaryWith: the number of queries is added to the sources too
SummaryWithQueriesAsSources(summary, agentId, usage) ==
    IF usage.present /\ usage.used
    THEN [totalUsageCount |-> summary.totalUsageCount + 1,
          totalQueries |-> summary.totalQueries + usage.queriesCount,
          totalSources |-> summary.totalSources + usage.queriesCount,
          agentsUsed |-> IF \E k \in 1..Len(summary.agentsUsed) :
                                 summary.agentsUsed[k] = agentId
                         THEN summary.agentsUsed
                         ELSE Append(summary.agentsUsed, agentId)]
    ELSE summary

\* the framework-level search summary (275-282)
SummaryWith(summary, agentId, usage) ==
    IF usage.present /\ usage.used
    THEN [totalUsageCount |-> summary.totalUsageCount + 1,
          totalQueries |-> summary.totalQueries + usage.queriesCount,
          totalSources |-> summary.totalSources + usage.sourcesCount,
          agentsUsed |-> IF \E k \in 1..Len(summary.agentsUsed) :
                                 summary.agentsUsed[k] = agentId
                         THEN summary.agentsUsed
                         ELSE Append(summary.agentsUsed, agentId)]
    ELSE summary

\* metrics after an expert's call returned (246-286)
TrackExpert(m, agentId, agentMetrics) ==
    LET entry == AddCounts(EntryOf(m.agentBreakdown, agentId, ExpertEntryDefault),
                           agentMetrics)
        merged == [entry EXCEPT !.googleSearchUsage =
                       MergeSearchUsage(@, agentMetrics.googleSearchUsage)]
    IN  [agentBreakdown |-> WithEntry(m.agentBreakdown, agentId, merged),
         totalInputTokens |-> m.totalInputTokens + agentMetrics.inputTokens,
         totalOutputTokens |-> m.totalOutputTokens + agentMetrics.outputTokens,
         googleSearchSummary |->
             SummaryWith(m.googleSearchSummary, agentId, agentMetrics.googleSearchUsage)]

\* mutant of TrackFinal: the totals of the run are left as they were
TrackFinalEntryOnly(m, agentMetrics) ==
    [m EXCEPT !.agentBreakdown =
                  WithEntry(@, finalAgentId,
                            AddCounts(EntryOf(@, finalAgentId, FinalEntryDefault),
                                      agentMetrics))]

\* metrics after the scoring call returned (317-325)
TrackFinal(m, agentMetrics) ==
    [m EXCEPT !.agentBreakdown =
                  WithEntry(@, finalAgentId,
                            AddCounts(EntryOf(@, finalAgentId, FinalEntryDefault),
                                      agentMetrics)),
              !.totalInputTokens = @ + agentMetrics.inputTokens,
              !.totalOutputTokens = @ + agentMetrics.outputTokens]

\* metrics after the initial analysis (555-559): the two entries are the
\* metrics objects the calls returned
TrackInitialAnalysis(m, classMetrics, summaryMetrics) ==
    [m EXCEPT !.agentBreakdown =
                  WithEntry(WithEntry(@, classificationAgent, classMetrics),
                            summarizeAgentId, summaryMetrics),
              !.totalInputTokens =
                  @ + classMetrics.inputTokens + summaryMetrics.inputTokens,
              !.totalOutputTokens =
                  @ + classMetrics.outputTokens + summaryMetrics.outputTokens]

\* what the scoring call returns: text that is no JSON, the error text of a
\* failed call, JSON null, or a JSON object with or without a feasibilityScore
ScoreChoices == {40, 75, 150, Undefined}

EvaluationContents ==
    {[kind |-> "text", score |-> Undefined], [kind |-> "null", score |-> Undefined]}
        \cup {[kind |-> "json", score |-> s] : s \in ScoreChoices}
        \cup (IF failures < MaxFailures
              THEN {[kind |-> "Error", score |-> Undefined]} ELSE {})

\* JSON.parse(evaluationContent) throws a SyntaxError
ParseThrows(content) == content.kind \in {"text", "Error"}

\* parsedEval.feasibilityScore throws a TypeError: parsedEval is null
FieldAccessThrows(content) == content.kind = "null"

\* mutant of PlaceholderResult: the failed evaluation scores 0
PlaceholderResultZero(i, errorName) ==
    [iteration |-> i,
     feasibilityScore |-> 0,
     rationale |-> <<"Evaluation", i, "failed to parse", errorName>>,
     keyFactors |-> <<"Parsing error occurred">>]

\* the catch branch of runSingleIteration (341-353)
PlaceholderResult(i, errorName) ==
    [iteration |-> i,
     feasibilityScore |-> NeutralScore,
     rationale |-> <<"Evaluation", i, "failed to parse", errorName>>,
     keyFactors |-> <<"Parsing error occurred">>]

\* try { JSON.parse ... } catch (328-353): evaluationResult of iteration i
EvaluationResult(content, i) ==
    IF ParseThrows(content) THEN PlaceholderResult(i, "SyntaxError")
    ELSE IF FieldAccessThrows(content) THEN PlaceholderResult(i, "TypeError")
    ELSE [iteration |-> i,
          feasibilityScore |-> content.score,
          rationale |-> <<"parsedEval.rationale">>,
          keyFactors |-> <<"parsedEval.keyFactors">>]

\* mutant of WithHistory: the record is stored without the transcript
WithHistoryDropped(result, history) ==
    [iteration |-> result.iteration,
     feasibilityScore |-> result.feasibilityScore,
     rationale |-> result.rationale,
     keyFactors |-> result.keyFactors,
     discussionHistory |-> <<>>]

\* independentEvaluations.push({...evaluationResult, discussionHistory: [...]})
WithHistory(result, history) ==
    [iteration |-> result.iteration,
     feasibilityScore |-> result.feasibilityScore,
     rationale |-> result.rationale,
     keyFactors |-> result.keyFactors,
     discussionHistory |-> history]

\* independentEvaluations.map(iter => iter.feasibilityScore)
ScoresOf(evaluations) ==
    [k \in 1..Len(evaluations) |-> evaluations[k].feasibilityScore]

\* mutant of FirstIteration: the loop counts from 0
FirstIterationZero == 1 - 1

\* for (let i = 1; ...
FirstIteration == 1

\* mutant of LoopContinues: i < numberOfIterations
LoopContinuesStrict(i) == i < numberOfIterations

\* ...; i <= numberOfIterations; i++)
LoopContinues(i) == i <= numberOfIterations

initialFinalDecision == [isLoading |-> TRUE, kind |-> "empty", result |-> NoResult]

ProgressDecision(i) ==
    [isLoading |-> TRUE, kind |-> "progress", result |-> [decision |-> "none", iteration |-> i]]

\* the content published at 466-471, or at 475-480 when the statistics threw
PublishedDecision(evaluations) ==
    IF JustificationThrows(ScoresOf(evaluations))
    THEN [isLoading |-> FALSE, kind |-> "error", result |-> NoResult]
    ELSE [isLoading |-> FALSE, kind |-> "result",
          result |-> [decision |-> FinalResultOf(ScoresOf(evaluations)).decision,
                      statistics |-> FinalResultOf(ScoresOf(evaluations)).statistics,
                      iterations |-> evaluations]]

\* feasibilityOpinions (455-463); left as they were when the statistics threw
OpinionsOf(evaluations) ==
    IF JustificationThrows(ScoresOf(evaluations)) THEN expertOpinions
    ELSE [k \in 1..Len(evaluations) |->
            [iteration |-> evaluations[k].iteration,
             feasibilityScore |-> evaluations[k].feasibilityScore,
             discussionHistory |-> evaluations[k].discussionHistory]]

----------------------------------------------------------------------------
(* Prompts: the texts the run builds for its calls.  Lines of a template  *)
(* that hold only white space are left out, and the eight lines of the     *)
(* discourse rules count as one.                                            *)

\* currentProposal.proposal_info, and the page the reader service returned
ProposalLine == Line("proposal", <<>>, 2000)
UrlContentLine == Line("urlContent", <<>>, 20000)

\* classificationConfig.prompt with the proposal, through the guard (509-511)
ClassificationPrompt ==
    truncatePromptIfNeeded(<<Line("template", <<1>>, 400), ProposalLine>>)

\* summarizeConfig.prompt with the page or the proposal, through the guard (529-531, 542-545)
SummaryPrompt ==
    truncatePromptIfNeeded(
        <<Line("template", <<2>>, 400), IF hasUrl THEN UrlContentLine ELSE ProposalLine>>)

\* fullContext (577-583) from the classification and the summary
fullContext(classContent, summaryForContext) ==
    <<ProposalLine,
      Line("label", <<1>>, 25),
      Line("classification", <<>>, 26 + ResultChars(classContent)),
      Line("summary", <<>>, 31 + ResultChars(summaryForContext))>>

\* `${m.agentName}: ${m.message}` of the k-th message of a transcript
MessageLine(message, k) ==
    Line("message", <<message.iteration, k>>, 20 + ResultChars(message.message))

\* discussionHistory.map(...).join("\n\n"), from the k-th message on
RECURSIVE JoinedFrom(_, _)
JoinedFrom(history, k) ==
    IF k > Len(history) THEN <<>>
    ELSE IF k = Len(history) THEN <<MessageLine(history[k], k)>>
    ELSE <<MessageLine(history[k], k), BlankLine>> \o JoinedFrom(history, k + 1)

\* the discourse rules that end an expert's prompt (231-238)
RulesLines == <<Line("rules", <<>>, 1722)>>

\* dynamicPrompt as built (223-238): context, transcript so far or the
\* placeholder sentence, the expert's instruction, the rules
BuiltExpertPrompt(context, history, k) ==
    context
        \o <<Line("label", <<2>>, 37)>>
        \o (IF history = <<>> THEN <<Line("placeholder", <<>>, 61)>>
            ELSE JoinedFrom(history, 1))
        \o <<Line("instruction", <<k>>, 600)>>
        \o RulesLines

\* finalPrompt as built (306-312): the template with the transcript in place of
\* its placeholder, and the assessment line of iteration i
BuiltScoringPrompt(history, i) ==
    <<Line("template", <<3>>, 800)>> \o JoinedFrom(history, 1)
        \o <<Line("template", <<4>>, 700), BlankLine, Line("assessment", <<i>>, 140)>>

\* trackerConfig.prompt with the metrics as JSON, through the guard (598-600)
TrackerPrompt ==
    truncatePromptIfNeeded(<<Line("template", <<5>>, 500), Line("executionData", <<>>, 1500)>>)

\* the request of the call for expert k in turn t of iteration i (240-244)
ExpertRequest(i, t, k, history) ==
    GenerationRequest(
        expertAgentIds[k], <<i, t, k>>,
        truncatePromptIfNeeded(
            BuiltExpertPrompt(fullContext(classification, summaryResult), history, k)),
        useGoogleSearch /\ IsExpertAgent(expertAgentIds[k]),
        temperature)

\* the request of the scoring call of iteration i (313-315)
ScoringRequest(i, history) ==
    GenerationRequest(finalAgentId, <<i>>,
                      truncatePromptIfNeeded(BuiltScoringPrompt(history, i)),
                      FALSE, temperature)

\* the generation call in flight for agentId
RequestOf(agentId) == CHOOSE r \in requests : r.agentId = agentId

\* one pass of the inner loops of runSingleIteration up to its await (221-244):
\* the prompt reads agentConfig.systemInstruction, a TypeError without a config
StartExpertCall(i, t, k) ==
    /\ turn' = t
    /\ expertIndex' = k
    /\ IF expertAgentIds[k] \in configs
       THEN /\ pc' = "expert"
            /\ pending' = {Call(expertAgentIds[k], i)}
            /\ requests' = {ExpertRequest(i, t, k, discussionHistory')}
       ELSE /\ pc' = "aborted"
            /\ pending' = {}
            /\ requests' = {}

\* mutant of FreshTranscript: the transcript of the last iteration is kept
CarriedTranscript(history) == history

\* let discussionHistory = [] at the start of runSingleIteration (215)
FreshTranscript(history) == <<>>

\* the head of the iteration loop for iteration i (371-386) and the start of
\* runSingleIteration (214-244)
StartIteration(i) ==
    /\ finalDecision' = ProgressDecision(i)
    /\ discussionMessages' = <<>>
    /\ isDiscussionLoading' = TRUE
    /\ iteration' = i
    /\ discussionHistory' = FreshTranscript(discussionHistory)
    /\ StartExpertCall(i, 0, 1)
    /\ UNCHANGED <<isSimulating, expertOpinions>>

\* after the loop (409-483), back in runSimulation (589-613): the statistics are
\* published and the tracker call starts; trackerConfig.prompt throws inside the
\* try without a config, and the run ends at once
Aggregate(evaluations, messages, i) ==
    /\ isDiscussionLoading' = FALSE
    /\ discussionMessages' = messages
    /\ expertOpinions' = OpinionsOf(evaluations)
    /\ finalDecision' = PublishedDecision(evaluations)
    /\ iteration' = i
    /\ IF trackerAgentId \in configs
       THEN /\ pc' = "tracker"
            /\ pending' = {Call(trackerAgentId, 0)}
            /\ requests' = {GenerationRequest(trackerAgentId, <<0>>, TrackerPrompt,
                                              FALSE, temperature)}
            /\ isSimulating' = isSimulating
       ELSE /\ pc' = "done"
            /\ pending' = {}
            /\ requests' = {}
            /\ isSimulating' = FALSE
    /\ UNCHANGED <<turn, expertIndex, discussionHistory>>

\* the loop test, entered with counter i
LoopFrom(i, evaluations, messages) ==
    IF LoopContinues(i) THEN StartIteration(i) ELSE Aggregate(evaluations, messages, i)

Idle ==
    /\ pc = "idle"
    /\ isSimulating = FALSE
    /\ finalDecision = initialFinalDecision
    /\ discussionMessages = <<>>
    /\ isDiscussionLoading = TRUE
    /\ expertOpinions = <<>>
    /\ independentEvaluations = <<>>
    /\ iteration = 0
    /\ turn = 0
    /\ expertIndex = 0
    /\ discussionHistory = <<>>
    /\ pending = {}
    /\ classification = "none"
    /\ summaryResult = ""
    /\ failures = 0
    /\ scoringContents = <<>>
    /\ requests = {}
    /\ metrics = NewMetrics
    /\ phase1Metrics = [classification |-> ZeroMetrics, summary |-> ZeroMetrics]
    /\ returned = [a \in Agents |-> <<>>]

NoRequest == GenerationRequest("none", <<>>, <<>>, FALSE, 0)

NoReturn == [result |-> "none", called |-> FALSE, metrics |-> ZeroMetrics]

InvokerUnused ==
    /\ invPc = "unused"
    /\ invAgentId = "none"
    /\ invRequest = NoRequest
    /\ invReturn = NoReturn

GuardUnused ==
    /\ guardPc = "unused"
    /\ guardText = <<>>
    /\ guardBudget = 0
    /\ guardOnce = <<>>
    /\ guardTwice = <<>>

\* the systemInstruction of every expert as agent_config.json has it
OriginalInstructions == [e \in {"expert_1", "expert_2", "expert_3"} |-> "original"]

\* useState(null) of frameworkMetrics: no metrics object is exposed
NoFrameworkMetrics == [run |-> 0, totalDurationStamped |-> FALSE]

\* activeTab, isQaLoading and qaMessages: the simulation tab is shown, no
\* exchange is under way, and qaMessages holds no "Perspective updated" message
NoQa == [activeTab |-> "simulation", isQaLoading |-> FALSE, perspectiveUpdated |-> {}]

\* the App state before any proposal is loaded (144-167)
SessionAtStart ==
    /\ proposal = FALSE
    /\ initialContext = FALSE
    /\ agentConfigs = OriginalInstructions
    /\ frameworkMetrics = NoFrameworkMetrics
    /\ runs = <<>>
    /\ fileReads = 0
    /\ useGeminiPro = FALSE
    /\ qa = NoQa

OthersUnused == GuardUnused /\ SessionAtStart

\* frameworkConfig.temperature: absent, the default 0, or 0.7
Temperatures == {Undefined, 0, 7}

StatsUnused ==
    /\ statPc = "unused"
    /\ statScores = <<>>
    /\ statResult = NoResult
    /\ statRendered = "none"
    /\ statPanel = [median |-> NaN, confidence |-> "none"]

Init ==
    /\ numberOfIterations \in 0..MaxIterations
    /\ configs \in ConfigChoices
    /\ hasUrl \in BOOLEAN
    /\ temperature = 0
    /\ useGoogleSearch = FALSE
    /\ Idle
    /\ StatsUnused
    /\ InvokerUnused
    /\ OthersUnused

\* handleProposalLoad -> runSimulation up to its first await (486-532): resetState
\* reads the names of three configs and throws without them; the classification
\* call starts, then the fetch or the summarization call
StartSimulation ==
    /\ pc = "idle"
    /\ isSimulating' = TRUE
    /\ IF {classificationAgent, summarizeAgentId, finalAgentId} \subseteq configs
       THEN /\ classification' = "pending"
            /\ pending' = {Call(classificationAgent, 0),
                           Call(IF hasUrl THEN "fetch" ELSE summarizeAgentId, 0)}
            /\ requests' =
                 {GenerationRequest(classificationAgent, <<0>>, ClassificationPrompt,
                                    FALSE, temperature)}
                 \cup (IF hasUrl THEN {}
                       ELSE {GenerationRequest(summarizeAgentId, <<0>>, SummaryPrompt,
                                               FALSE, temperature)})
            /\ pc' = IF hasUrl THEN "fetch" ELSE "summarize"
       ELSE /\ pc' = "aborted"
            /\ UNCHANGED <<classification, pending, requests>>
    /\ metrics' = NewMetrics
    /\ UNCHANGED <<inputVars, statVars, invVars, otherVars, finalDecision, discussionMessages,
                   isDiscussionLoading, expertOpinions, independentEvaluations,
                   iteration, turn, expertIndex, discussionHistory, summaryResult,
                   failures, scoringContents, phase1Metrics, returned>>

\* the classification call returns; its promise resolves (runAgent never rejects)
ClassificationReturns ==
    /\ classification = "pending"
    /\ Call(classificationAgent, 0) \in pending
    /\ \E text \in ReplyTexts :
        LET answer == RunAgentReturn(RequestOf(classificationAgent), text)
        IN  /\ classification' = text
            /\ failures' = failures + Failed(text)
            /\ phase1Metrics' = [phase1Metrics EXCEPT !.classification = answer.metrics]
            /\ returned' = [returned EXCEPT ![classificationAgent] =
                                 Append(@, answer.metrics)]
    /\ pending' = pending \ {Call(classificationAgent, 0)}
    /\ requests' = requests \ {RequestOf(classificationAgent)}
    /\ UNCHANGED <<inputVars, statVars, invVars, otherVars, pc, isSimulating, finalDecision,
                   discussionMessages, isDiscussionLoading, expertOpinions,
                   independentEvaluations, iteration, turn, expertIndex,
                   discussionHistory, summaryResult, scoringContents, metrics>>

\* fetch(jinaUrl) settles (523-536): on success the summarization call starts; a
\* rejection or a status that is not ok is caught and leaves an error text
FetchReturns ==
    /\ pc = "fetch"
    /\ \E ok \in {TRUE} \cup (IF failures < MaxFailures THEN {FALSE} ELSE {}) :
        IF ok
        THEN /\ pc' = "summarize"
             /\ pending' = (pending \ {Call("fetch", 0)}) \cup {Call(summarizeAgentId, 0)}
             /\ requests' = requests
                    \cup {GenerationRequest(summarizeAgentId, <<0>>, SummaryPrompt,
                                            FALSE, temperature)}
             /\ UNCHANGED <<summaryResult, failures>>
        ELSE /\ pc' = "awaitClassification"
             /\ pending' = pending \ {Call("fetch", 0)}
             /\ summaryResult' = "Error"
             /\ failures' = failures + 1
             /\ UNCHANGED requests
    /\ UNCHANGED <<inputVars, statVars, invVars, otherVars, isSimulating, finalDecision,
                   discussionMessages, isDiscussionLoading, expertOpinions,
                   independentEvaluations, iteration, turn, expertIndex,
                   discussionHistory, classification, scoringContents, metrics,
                   phase1Metrics, returned>>

\* the summarization call returns (532 / 546)
SummarizeReturns ==
    /\ pc = "summarize"
    /\ \E text \in ReplyTexts :
        LET answer == RunAgentReturn(RequestOf(summarizeAgentId), text)
        IN  /\ summaryResult' = text
            /\ failures' = failures + Failed(text)
            /\ phase1Metrics' = [phase1Metrics EXCEPT !.summary = answer.metrics]
            /\ returned' = [returned EXCEPT ![summarizeAgentId] =
                                 Append(@, answer.metrics)]
    /\ pc' = "awaitClassification"
    /\ pending' = pending \ {Call(summarizeAgentId, 0)}
    /\ requests' = requests \ {RequestOf(summarizeAgentId)}
    /\ UNCHANGED <<inputVars, statVars, invVars, otherVars, isSimulating, finalDecision,
                   discussionMessages, isDiscussionLoading, expertOpinions,
                   independentEvaluations, iteration, turn, expertIndex,
                   discussionHistory, classification, scoringContents, metrics>>

\* mutant of Resolved: the await does not wait
ResolvedOrPending(result) == TRUE

\* await classificationPromise (553) goes on once the call has returned
Resolved(result) == result \notin {"none", "pending"}

\* await classificationPromise resumes (553-587), runDiscussionAndDecision resets
\* the discussion state (358-366) and enters its loop
AwaitClassification ==
    /\ pc = "awaitClassification"
    /\ Resolved(classification)
    /\ metrics' = TrackInitialAnalysis(metrics, phase1Metrics.classification,
                                       phase1Metrics.summary)
    /\ independentEvaluations' = <<>>
    /\ scoringContents' = <<>>
    /\ LoopFrom(FirstIteration, <<>>, <<>>)
    /\ UNCHANGED <<inputVars, statVars, invVars, otherVars, classification, summaryResult, failures,
                   phase1Metrics, returned>>

\* an expert's call returns (244-296): its message joins the transcript and the
\* live view, then the 200 ms pause
ExpertReturns ==
    /\ pc = "expert"
    /\ \E text \in ReplyTexts :
        LET id == expertAgentIds[expertIndex]
            answer == RunAgentReturn(RequestOf(id), text)
            message == [agentId |-> id,
                        iteration |-> iteration, turn |-> turn, message |-> text]
        IN  /\ metrics' = TrackExpert(metrics, id, answer.metrics)
            /\ returned' = [returned EXCEPT ![id] = Append(@, answer.metrics)]
            /\ discussionHistory' = Append(discussionHistory, message)
            /\ discussionMessages' = Append(discussionMessages, message)
            /\ failures' = failures + Failed(text)
    /\ pending' = {}
    /\ requests' = {}
    /\ pc' = "delay"
    /\ UNCHANGED <<inputVars, statVars, invVars, otherVars, isSimulating, finalDecision,
                   isDiscussionLoading, expertOpinions, independentEvaluations,
                   iteration, turn, expertIndex, classification, summaryResult,
                   scoringContents, phase1Metrics>>

\* mutant of MoreTurns: one turn more than discussionTurns
MoreTurnsInclusive(t) == t <= discussionTurns

\* for (...; turn < discussionTurns; turn++): the test, with the turn counter at t
MoreTurns(t) == t < discussionTurns

\* the pause ends: the next expert's call starts, or after the last turn the
\* scoring call (300-315); finalAgentConfig.prompt throws without a config
DelayElapsed ==
    /\ pc = "delay"
    /\ UNCHANGED discussionHistory
    /\ IF expertIndex < Len(expertAgentIds)
       THEN /\ StartExpertCall(iteration, turn, expertIndex + 1)
            /\ UNCHANGED isDiscussionLoading
       ELSE IF MoreTurns(turn + 1)
       THEN /\ StartExpertCall(iteration, turn + 1, 1)
            /\ UNCHANGED isDiscussionLoading
       ELSE /\ isDiscussionLoading' = FALSE
            /\ UNCHANGED <<turn, expertIndex>>
            /\ IF finalAgentId \in configs
               THEN /\ pc' = "score"
                    /\ pending' = {Call(finalAgentId, iteration)}
                    /\ requests' = {ScoringRequest(iteration, discussionHistory)}
               ELSE /\ pc' = "aborted"
                    /\ pending' = {}
                    /\ requests' = {}
    /\ UNCHANGED <<inputVars, statVars, invVars, otherVars, isSimulating, finalDecision,
                   discussionMessages, expertOpinions, independentEvaluations,
                   iteration, classification, summaryResult,
                   failures, scoringContents, metrics, phase1Metrics, returned>>

\* the scoring call returns (315-353, 386-407): the evaluation is recorded with a
\* copy of the transcript, the last iteration's transcript becomes the live view,
\* and the loop goes on or the results are aggregated
ScoringReturns ==
    /\ pc = "score"
    /\ \E content \in EvaluationContents :
        LET evaluations ==
                Append(independentEvaluations,
                       WithHistory(EvaluationResult(content, iteration),
                                   discussionHistory))
            messages == IF iteration = numberOfIterations
                        THEN discussionHistory ELSE discussionMessages
            answer == RunAgentReturn(RequestOf(finalAgentId), content.kind)
        IN  /\ metrics' = TrackFinal(metrics, answer.metrics)
            /\ returned' = [returned EXCEPT ![finalAgentId] =
                                 Append(@, answer.metrics)]
            /\ independentEvaluations' = evaluations
            /\ scoringContents' = Append(scoringContents, content)
            /\ failures' = failures + (IF content.kind = "Error" THEN 1 ELSE 0)
            /\ LoopFrom(iteration + 1, evaluations, messages)
    /\ UNCHANGED <<inputVars, statVars, invVars, otherVars, classification, summaryResult, phase1Metrics>>

\* the tracker call returns (602-613)
TrackerReturns ==
    /\ pc = "tracker"
    /\ \E text \in ReplyTexts :
        /\ failures' = failures + Failed(text)
        /\ returned' = [returned EXCEPT ![trackerAgentId] =
               Append(@, RunAgentReturn(RequestOf(trackerAgentId), text).metrics)]
    /\ pending' = {}
    /\ requests' = {}
    /\ isSimulating' = FALSE
    /\ pc' = "done"
    /\ UNCHANGED <<inputVars, statVars, invVars, otherVars, finalDecision, discussionMessages,
                   isDiscussionLoading, expertOpinions, independentEvaluations,
                   iteration, turn, expertIndex, discussionHistory, classification,
                   summaryResult, scoringContents, metrics, phase1Metrics>>

Next ==
    \/ StartSimulation
    \/ ClassificationReturns
    \/ FetchReturns
    \/ SummarizeReturns
    \/ AwaitClassification
    \/ ExpertReturns
    \/ DelayElapsed
    \/ ScoringReturns
    \/ TrackerReturns

Spec == Init /\ [][Next]_vars

----------------------------------------------------------------------------
(* SpecSettings: runs of the complete pipeline under every run-level setting, *)
(* with a scoring agent that answers in its schema or fails                   *)

InitSettings ==
    /\ numberOfIterations \in 1..MaxIterations
    /\ configs = Agents
    /\ hasUrl \in BOOLEAN
    /\ temperature \in Temperatures
    /\ useGoogleSearch \in BOOLEAN
    /\ Idle
    /\ StatsUnused
    /\ InvokerUnused
    /\ OthersUnused

\* the scoring call returns an object with a score, or the call fails
ScoringReturnsScored ==
    /\ ScoringReturns
    /\ LET content == scoringContents'[Len(scoringContents')]
       IN  content.kind = "Error" \/ (content.kind = "json" /\ content.score = 75)

NextSettings ==
    \/ StartSimulation
    \/ ClassificationReturns
    \/ FetchReturns
    \/ SummarizeReturns
    \/ AwaitClassification
    \/ ExpertReturns
    \/ DelayElapsed
    \/ ScoringReturnsScored
    \/ TrackerReturns

SpecSettings == InitSettings /\ [][NextSettings]_vars

----------------------------------------------------------------------------
(* SpecInvoker: runAgent called once, for every agent id, set of configs and *)
(* run-level setting                                                          *)

\* ids runAgent is called with: the agents of the pipeline and the
\* prompt_update_agent of the question handler
InvokedAgentIds == Agents \cup {"prompt_update_agent"}

\* the dynamicPrompt handed over
InvokerPrompt == <<Line("template", <<6>>, 400), ProposalLine>>

InitInvoker ==
    /\ numberOfIterations = 0
    /\ configs \in ConfigChoices
    /\ hasUrl = FALSE
    /\ temperature \in Temperatures
    /\ useGoogleSearch \in BOOLEAN
    /\ Idle
    /\ StatsUnused
    /\ OthersUnused
    /\ invPc = "input"
    /\ invAgentId \in InvokedAgentIds
    /\ invRequest = NoRequest
    /\ invReturn = NoReturn

\* runAgent up to its await (58-86): without a config it returns at once
InvokeAgent ==
    /\ invPc = "input"
    /\ IF ConfigFound(invAgentId, configs)
       THEN /\ invPc' = "calling"
            /\ invRequest' = GenerationRequest(invAgentId, <<0>>, InvokerPrompt,
                                               useGoogleSearch, temperature)
            /\ UNCHANGED invReturn
       ELSE /\ invPc' = "returned"
            /\ invReturn' = ConfigNotFoundReturn
            /\ UNCHANGED invRequest
    /\ UNCHANGED <<inputVars, runVars, statVars, otherVars, invAgentId>>

\* runAgentQuery returns, with generated text or with the error text of its
\* catch, and runAgent returns (88-104)
QueryReturns ==
    /\ invPc = "calling"
    /\ \E text \in {"reply", "Error"} : invReturn' = RunAgentReturn(invRequest, text)
    /\ invPc' = "returned"
    /\ UNCHANGED <<inputVars, runVars, statVars, otherVars, invAgentId, invRequest>>

NextInvoker == InvokeAgent \/ QueryReturns

SpecInvoker == InitInvoker /\ [][NextInvoker]_vars

----------------------------------------------------------------------------
(* SpecStats: the statistics applied to every score list within the bounds *)

\* band edges of both threshold tables, and values around them
StatScoreValues == {0, 29, 30, 49, 50, 65, 70, 75, 80, 81, 85, 100}

\* the lists the specification's worked examples use
ExampleScoreLists == {<<75, 82, 73, 90, 40>>, <<75, 80, 85>>}

ScoreLists ==
    UNION {[1..n -> StatScoreValues] : n \in 0..MaxScores} \cup ExampleScoreLists

InitStats ==
    /\ numberOfIterations = 0
    /\ configs = Agents
    /\ hasUrl = FALSE
    /\ temperature = 0
    /\ useGoogleSearch = FALSE
    /\ Idle
    /\ statPc = "input"
    /\ statScores \in ScoreLists
    /\ statResult = NoResult
    /\ statRendered = "none"
    /\ statPanel = [median |-> NaN, confidence |-> "none"]
    /\ InvokerUnused
    /\ OthersUnused

ComputeStatistics ==
    /\ statPc = "input"
    /\ statPc' = "computed"
    /\ statResult' = FinalResultOf(statScores)
    /\ UNCHANGED <<inputVars, runVars, invVars, otherVars, statScores, statRendered, statPanel>>

RenderDecision ==
    /\ statPc = "computed"
    /\ statPc' = "rendered"
    /\ statRendered' = RenderedRecommendation(statResult)
    /\ statPanel' = [median |-> calculateMedian(statScores),
                     confidence |-> calculateConfidenceLevel(statScores)]
    /\ UNCHANGED <<inputVars, runVars, invVars, otherVars, statScores, statResult>>

NextStats == ComputeStatistics \/ RenderDecision

SpecStats == InitStats /\ [][NextStats]_vars

----------------------------------------------------------------------------
(* Properties of the statistics, checked under SpecStats *)

\* the four recommendation bands, whatever the capitalisation of their names
BandOf(name) ==
    CASE name = "Proceed" -> "Proceed"
      [] name = "Proceed with Caution" -> "ProceedWithCaution"
      [] name = "Not Recommended" -> "NotRecommended"
      [] name \in {"Do not proceed", "Do Not Proceed"} -> "DoNotProceed"
      [] OTHER -> "none"

\* the band the threshold table gives a median: above 80, 50 to 80, 30 to below 50, below 30
TableBandOf(median) ==
    IF median.twice > 2 * 80 THEN "Proceed"
    ELSE IF median.twice >= 2 * 50 THEN "ProceedWithCaution"
    ELSE IF median.twice >= 2 * 30 THEN "NotRecommended"
    ELSE "DoNotProceed"

\* C2: the decision of the DecisionResult is the band of the threshold table for
\* its median: Proceed above 80, ProceedWithCaution from 50 to 80, NotRecommended
\* from 30 to below 50, DoNotProceed below 30.
C2_DecisionFollowsThresholdTable ==
    (statPc # "input" /\ statResult.statistics.median.kind = "number")
        => BandOf(statResult.decision) = TableBandOf(statResult.statistics.median)

\* C7: the decision stored in the DecisionResult and the recommendation the
\* rendering shows for the same result name the same band.
C7_StoredAndRenderedAgree ==
    statPc = "rendered" => BandOf(statResult.decision) = BandOf(statRendered)

CountBelow(scores, x) == Cardinality({k \in 1..Len(scores) : scores[k] < x})
CountAtMost(scores, x) == Cardinality({k \in 1..Len(scores) : scores[k] <= x})

\* the r-th smallest score, by counting: fewer than r scores lie below it and at
\* least r scores are at most it
OrderStatistic(scores, r) ==
    CHOOSE x \in {scores[k] : k \in 1..Len(scores)} :
        CountBelow(scores, x) < r /\ r <= CountAtMost(scores, x)

RECURSIVE SumOfSquares(_)
SumOfSquares(scores) ==
    IF scores = <<>> THEN 0
    ELSE Head(scores) * Head(scores) + SumOfSquares(Tail(scores))

\* n^2 times the population variance: n * sum(s^2) - (sum s)^2
ScaledPopulationVariance(scores) ==
    Len(scores) * SumOfSquares(scores) - SumScores(scores) * SumScores(scores)

\* C9: with the population variance v (divisor N), confidenceLevel is High
\* exactly when v <= 25, Medium exactly when 25 < v <= 225 and Low exactly when
\* v > 225; [75, 82, 73, 90, 40] gives Low and [75, 80, 85] gives High.
C9_ConfidenceFromPopulationVariance ==
    (statPc # "input" /\ Len(statScores) > 0) =>
        LET n == Len(statScores)
            v == ScaledPopulationVariance(statScores)
            level == statResult.statistics.confidenceLevel
        IN  /\ level = "High" <=> v <= 25 * n * n
            /\ level = "Medium" <=> (25 * n * n < v /\ v <= 225 * n * n)
            /\ level = "Low" <=> v > 225 * n * n
            /\ statScores = <<75, 82, 73, 90, 40>> => level = "Low"
            /\ statScores = <<75, 80, 85>> => level = "High"
            /\ statPc = "rendered" => statPanel.confidence = level

\* the worked example of the specification has been computed
C9_Witness ==
    /\ statPc = "computed"
    /\ statScores = <<75, 82, 73, 90, 40>>
    /\ statResult.statistics.confidenceLevel = "Low"

----------------------------------------------------------------------------
(* Properties of the run, checked under Spec *)

\* the iteration loop has ended and runDiscussionAndDecision has returned
LoopEnded == pc \in {"tracker", "done"}

\* the scoring output cannot be parsed as structured content
Unparsable(content) == content.kind \in {"text", "Error", "null"}

\* C1: a completed run with iteration count N has exactly N iteration records,
\* in the list the loop builds and in the published result, whatever the scoring
\* calls returned; when every scoring output failed to parse, every record has
\* feasibilityScore 50.
C1_ExactlyNRecords ==
    /\ LoopEnded => Len(independentEvaluations) = numberOfIterations
    /\ finalDecision.kind = "result" =>
           Len(finalDecision.result.iterations) = numberOfIterations
    /\ (LoopEnded /\ \A k \in 1..Len(scoringContents) : Unparsable(scoringContents[k]))
           => \A k \in 1..Len(independentEvaluations) :
                  independentEvaluations[k].feasibilityScore = 50

\* a run of two or more iterations whose scoring outputs all failed to parse has ended
C1_Witness ==
    /\ pc = "done"
    /\ numberOfIterations >= 2
    /\ Len(scoringContents) = numberOfIterations
    /\ \A k \in 1..Len(scoringContents) : Unparsable(scoringContents[k])
    /\ finalDecision.kind = "result"

\* C3: every iteration record has a numeric feasibilityScore between 0 and 100;
\* an output that lacks the score or carries one out of range yields the
\* neutral score.
C3_ScoresWithinRange ==
    \A k \in 1..Len(independentEvaluations) :
        /\ independentEvaluations[k].feasibilityScore # Undefined
        /\ independentEvaluations[k].feasibilityScore \in 0..100

\* the transcript of a whole discussion round of iteration i: every expert once
\* per turn, in list order, each message made in iteration i
FullTranscriptOf(history, i) ==
    /\ Len(history) = discussionTurns * Len(expertAgentIds)
    /\ \A k \in 1..Len(history) :
        /\ history[k].iteration = i
        /\ history[k].turn = (k - 1) \div Len(expertAgentIds)
        /\ history[k].agentId = expertAgentIds[((k - 1) % Len(expertAgentIds)) + 1]

\* C4: when the scoring output of iteration i cannot be parsed (the error text of
\* a failed call included), the iteration yields a record with iterationIndex i,
\* feasibilityScore 50, keyFactors ["Parsing error occurred"], a rationale naming
\* the parse failure of evaluation i, and the iteration's full transcript; the
\* iteration returns (a record exists for every scoring output) and the run is
\* not aborted.
C4_ParseFailureYieldsPlaceholder ==
    /\ Len(independentEvaluations) = Len(scoringContents)
    /\ scoringContents # <<>> => pc # "aborted"
    /\ \A i \in 1..Len(scoringContents) :
        Unparsable(scoringContents[i]) =>
            LET record == independentEvaluations[i]
            IN  /\ record.iteration = i
                /\ record.feasibilityScore = 50
                /\ record.keyFactors = <<"Parsing error occurred">>
                /\ SubSeq(record.rationale, 1, 3) = <<"Evaluation", i, "failed to parse">>
                /\ FullTranscriptOf(record.discussionHistory, i)

\* the scoring call of the second iteration failed and left its error text
C4_Witness ==
    /\ Len(scoringContents) = 2
    /\ scoringContents[2].kind = "Error"
    /\ independentEvaluations[2].feasibilityScore = 50

\* C5: with every agent configured, whatever calls fail, a simulation that has
\* stopped (no call is awaited any more) has published a DecisionResult, the
\* final decision is no longer loading and the simulating flag is cleared.
C5_RunEndsWithDecisionResult ==
    (configs = Agents /\ pc \in {"done", "aborted"}) =>
        /\ pc = "done"
        /\ finalDecision.kind = "result"
        /\ ~finalDecision.isLoading
        /\ ~isSimulating

\* C6: statistics over an empty iteration set (iteration count 0) end in an
\* error condition and publish no DecisionResult.
C6_NoIterationsIsAnError ==
    (numberOfIterations = 0 /\ LoopEnded) => finalDecision.kind = "error"

\* C10: iterations run 1, 2, ..., N in order and one at a time: a discussion or
\* scoring call in flight belongs to the iteration after the last recorded one,
\* at most one such call is in flight, the running iteration is the next one to
\* record, and the k-th record has iterationIndex k.
C10_IterationsSequential ==
    /\ \A k \in 1..Len(independentEvaluations) : independentEvaluations[k].iteration = k
    /\ \A c \in pending :
        c.agentId \notin {classificationAgent, summarizeAgentId, trackerAgentId, "fetch"}
            => c.iteration = Len(independentEvaluations) + 1
    /\ Cardinality({c \in pending : c.iteration >= 1}) <= 1
    /\ pc \in {"expert", "delay", "score"} =>
        /\ iteration = Len(independentEvaluations) + 1
        /\ iteration \in 1..numberOfIterations
        /\ \A k \in 1..Len(discussionHistory) : discussionHistory[k].iteration = iteration

\* a call of the second iteration is in flight after the first was recorded
C10_Witness ==
    /\ pc = "expert"
    /\ iteration = 2
    /\ Len(independentEvaluations) = 1
    /\ pending = {Call("expert_1", 2)}

----------------------------------------------------------------------------
(* Properties of the calls of a run, checked under SpecSettings *)

\* the message lines of a prompt, in the order they stand in it
MessageRefs(prompt) ==
    LET positions == {j \in 1..Len(prompt) : prompt[j].part = "message"}
        Nth(n) == CHOOSE j \in positions :
                      Cardinality({other \in positions : other < j}) = n - 1
    IN  [n \in 1..Cardinality(positions) |-> prompt[Nth(n)].ref]

\* C11: the scoring prompt of iteration i holds messages of iteration i only (and
\* the assessment line of iteration i), the transcript holds messages of the
\* running iteration only, and the first call of an iteration is made with an
\* empty transcript and a prompt without any message.
C11_ScoringPromptFromOwnTranscript ==
    /\ \A r \in requests :
        r.agentId = finalAgentId =>
            /\ \A n \in 1..Len(MessageRefs(r.prompt)) :
                   MessageRefs(r.prompt)[n][1] = r.ref[1]
            /\ \A j \in 1..Len(r.prompt) :
                   r.prompt[j].part = "assessment" => r.prompt[j].ref = r.ref
            /\ r.ref = <<iteration>>
    /\ pc \in {"expert", "delay", "score"} =>
           \A k \in 1..Len(discussionHistory) : discussionHistory[k].iteration = iteration
    /\ \A r \in requests :
        (IsExpertAgent(r.agentId) /\ r.ref[2] = 0 /\ r.ref[3] = 1) =>
            /\ discussionHistory = <<>>
            /\ MessageRefs(r.prompt) = <<>>

\* the scoring call of the second iteration is in flight with messages in its prompt
C11_Witness ==
    /\ pc = "score"
    /\ iteration = 2
    /\ Len(independentEvaluations[1].discussionHistory) > 0
    /\ \E r \in requests : r.agentId = finalAgentId /\ Len(MessageRefs(r.prompt)) > 0

\* C12: a round makes turnsPerParticipant x |participantIds| = 2 x 3 expert
\* calls, all before the scoring call: when the scoring call of iteration i is
\* in flight every expert has returned from 2 i calls and the transcript has 6
\* messages; the call in flight for the k-th message (from 0) is for
\* participantIds[k mod 3], and so is the k-th message.
C12_RoundOrder ==
    LET participants == Len(expertAgentIds)
    IN  /\ pc = "score" =>
            /\ Len(discussionHistory) = 2 * participants
            /\ \A e \in 1..participants :
                   Len(returned[expertAgentIds[e]]) = 2 * iteration
            /\ \A r \in requests : r.agentId = finalAgentId
        /\ \A k \in 1..Len(discussionHistory) :
               discussionHistory[k].agentId = expertAgentIds[((k - 1) % participants) + 1]
        /\ \A r \in requests :
               IsExpertAgent(r.agentId) =>
                   /\ Len(discussionHistory) < 2 * participants
                   /\ r.agentId = expertAgentIds[(Len(discussionHistory) % participants) + 1]
                   /\ Len(returned[finalAgentId]) = iteration - 1

\* the scoring call of the second iteration is in flight after both rounds
C12_Witness ==
    /\ pc = "score"
    /\ iteration = 2
    /\ Len(returned["expert_3"]) = 4

\* the references <<i, 1>> .. <<i, n>> of the n messages of a transcript of iteration i
TranscriptRefs(i, n) == [k \in 1..n |-> <<i, k>>]

\* the prompt built for the expert call in flight, before the guard
BuiltForCallInFlight ==
    BuiltExpertPrompt(fullContext(classification, summaryResult),
                      discussionHistory, expertIndex)

\* later is earlier with messages appended
AppendedTo(earlier, later) ==
    /\ Len(later) >= Len(earlier)
    /\ SubSeq(later, 1, Len(earlier)) = earlier

\* C13 as stated: every message of the round is in the prompt sent for each
\* later expert call of the round, and within a round the transcript changes
\* by appending only.
C13_EveryEarlierMessageInSentPrompt ==
    /\ [](\A r \in requests :
             IsExpertAgent(r.agentId) =>
                 MessageRefs(r.prompt) = TranscriptRefs(iteration, Len(discussionHistory)))
    /\ [][iteration' = iteration => AppendedTo(discussionHistory, discussionHistory')]_vars

\* C13, amended: every message of the round is in the prompt built for each
\* later expert call of the round; the prompt sent is the built one when that is
\* within MAX_CONTEXT_TOKENS, and otherwise the marker, an empty line and a run
\* of lines that ends the built prompt (after the newline of the cut), so that
\* the messages sent are the most recent ones in order; within a round the
\* transcript changes by appending only.
C13_MessagesInPromptUpToTruncation ==
    /\ [](\A r \in requests :
             IsExpertAgent(r.agentId) =>
                 LET built == BuiltForCallInFlight
                     all == TranscriptRefs(iteration, Len(discussionHistory))
                     sent == MessageRefs(r.prompt)
                 IN  /\ MessageRefs(built) = all
                     /\ countTokens(TextLength(built)) <= MAX_CONTEXT_TOKENS =>
                            r.prompt = built
                     /\ countTokens(TextLength(built)) > MAX_CONTEXT_TOKENS =>
                            /\ SubSeq(r.prompt, 1, 3) = <<MarkerLine, BlankLine, BlankLine>>
                            /\ Len(r.prompt) - 3 < Len(built)
                            /\ SubSeq(r.prompt, 4, Len(r.prompt))
                                   = SubSeq(built, Len(built) - (Len(r.prompt) - 3) + 1, Len(built))
                            /\ sent = SubSeq(all, Len(all) - Len(sent) + 1, Len(all)))
    /\ [][iteration' = iteration => AppendedTo(discussionHistory, discussionHistory')]_vars

\* an expert call is in flight whose prompt was cut: the oldest message of the
\* round is missing from it and later ones are in it
C13_Witness ==
    \E r \in requests :
        /\ IsExpertAgent(r.agentId)
        /\ r.prompt[1] = MarkerLine
        /\ Len(discussionHistory) >= 2
        /\ Len(MessageRefs(r.prompt)) \in 1..(Len(discussionHistory) - 1)

----------------------------------------------------------------------------
(* Properties of the metrics of a run, checked under SpecSettings *)

\* the agents a run keeps metrics for: every agent but the tracker, which is
\* called once the metrics are final (595-601) and whose metrics are dropped
MeasuredAgents == Agents \ {trackerAgentId}

\* duration, token counts and search usage of an AgentMetrics object; an object
\* without googleSearchUsage counts as no use of the search
MetricsFields(agentMetrics) ==
    [duration |-> agentMetrics.duration,
     inputTokens |-> agentMetrics.inputTokens,
     outputTokens |-> agentMetrics.outputTokens,
     used |-> agentMetrics.googleSearchUsage.used,
     queriesCount |-> agentMetrics.googleSearchUsage.queriesCount,
     sourcesCount |-> agentMetrics.googleSearchUsage.sourcesCount,
     queries |-> agentMetrics.googleSearchUsage.queries,
     sources |-> agentMetrics.googleSearchUsage.sources]

\* the field-wise sum of the first n metrics objects of a log, in call order
RECURSIVE FieldwiseSum(_, _)
FieldwiseSum(log, n) ==
    IF n = 0 THEN MetricsFields(ZeroMetrics)
    ELSE LET before == FieldwiseSum(log, n - 1)
             last == MetricsFields(log[n])
         IN  [duration |-> before.duration + last.duration,
              inputTokens |-> before.inputTokens + last.inputTokens,
              outputTokens |-> before.outputTokens + last.outputTokens,
              used |-> before.used \/ last.used,
              queriesCount |-> before.queriesCount + last.queriesCount,
              sourcesCount |-> before.sourcesCount + last.sourcesCount,
              queries |-> before.queries \o last.queries,
              sources |-> before.sources \o last.sources]

\* metrics.agentBreakdown[agentId], or zero metrics when there is no entry
Accumulated(agentId) == EntryOf(metrics.agentBreakdown, agentId, ZeroMetrics)

\* C14: when the iteration loop of a run has ended, the accumulated metrics of
\* every measured agent are the field-wise sum of the metrics its calls
\* returned, over all turns and iterations: durations and token counts added,
\* search counts added, used OR'd, query and source lists joined in call order.
C14_AccumulatedIsSumOfReturned ==
    LoopEnded =>
        \A agentId \in MeasuredAgents :
            MetricsFields(Accumulated(agentId))
                = FieldwiseSum(returned[agentId], Len(returned[agentId]))

\* a run of two iterations with the search enabled has ended: expert_1 made
\* four calls, one of them failed, and its entry lists the queries of the others
C14_Witness ==
    /\ pc = "done"
    /\ numberOfIterations = 2
    /\ useGoogleSearch
    /\ Len(returned["expert_1"]) = 4
    /\ \E n \in 1..4 : returned["expert_1"][n].duration = ElapsedFor("Error")
    /\ Len(Accumulated("expert_1").googleSearchUsage.queries) = 3
    /\ Len(returned[finalAgentId]) = 2

\* C15: no step of a run lowers the accumulated duration, input-token count or
\* output-token count of any agent.
C15_AccumulatedNeverDecreases ==
    [][pc # "idle" =>
           \A agentId \in Agents :
               /\ Accumulated(agentId)'.duration >= Accumulated(agentId).duration
               /\ Accumulated(agentId)'.inputTokens >= Accumulated(agentId).inputTokens
               /\ Accumulated(agentId)'.outputTokens >= Accumulated(agentId).outputTokens]_vars

\* an expert's second call returned smaller counts than its first (it failed),
\* and the entry holds more than the first call's counts
C15_Witness ==
    \E k \in 1..Len(expertAgentIds) :
        LET log == returned[expertAgentIds[k]]
        IN  /\ Len(log) >= 2
            /\ log[2].outputTokens < log[1].outputTokens
            /\ log[2].duration < log[1].duration
            /\ Accumulated(expertAgentIds[k]).outputTokens > log[1].outputTokens
            /\ Accumulated(expertAgentIds[k]).duration > log[1].duration

----------------------------------------------------------------------------
(* Properties of the generation calls of a run, checked under SpecSettings *)

\* C16: a generation call of a run has the search tool attached exactly when
\* the search is enabled for the run and the call is for an expert of the
\* discussion; the calls for classification, summarization and scoring never
\* have it, and with the search disabled no call has it.
C16_SearchOnlyForExperts ==
    \A r \in requests :
        /\ r.tools = (useGoogleSearch /\ IsExpertAgent(r.agentId))
        /\ r.agentId \in {classificationAgent, summarizeAgentId, finalAgentId} => ~r.tools
        /\ ~useGoogleSearch => ~r.tools

\* with the search enabled, the scoring call is in flight without the tool after
\* expert calls that had it came back grounded
C16_Witness ==
    /\ useGoogleSearch
    /\ pc = "score"
    /\ \E r \in requests : r.agentId = finalAgentId /\ ~r.tools
    /\ Accumulated("expert_2").googleSearchUsage.used

\* C17: every generation call for the classification or the summarization
\* agent is made at temperature 0 whatever the temperature of the run; every
\* other call is made at the temperature of the run, or at 0 when the run has none.
C17_TemperaturePolicy ==
    \A r \in requests :
        /\ r.agentId \in {classificationAgent, summarizeAgentId} => r.temperature = 0
        /\ r.agentId \notin {classificationAgent, summarizeAgentId} =>
               r.temperature = (IF temperature = Undefined THEN 0 ELSE temperature)

\* in a run at temperature 0.7 the classification and summarization calls are
\* in flight together, both at 0
C17_Witness ==
    /\ temperature = 7
    /\ \E r \in requests : r.agentId = classificationAgent /\ r.temperature = 0
    /\ \E r \in requests : r.agentId = summarizeAgentId /\ r.temperature = 0

----------------------------------------------------------------------------
(* A run with an agent's configuration missing, checked under Spec *)

\* C18: a run in which one agent of the pipeline has no configuration is not
\* aborted: once it has stopped it has ended normally with N iteration records,
\* and (when every scoring output gave a numeric score) a published DecisionResult.
C18_MissingConfigDoesNotAbort ==
    (configs # Agents /\ pc \in {"done", "aborted"}) =>
        /\ pc = "done"
        /\ ~isSimulating
        /\ Len(independentEvaluations) = numberOfIterations
        /\ (\A k \in 1..Len(independentEvaluations) :
                IsNumber(independentEvaluations[k].feasibilityScore))
               => finalDecision.kind = "result"

----------------------------------------------------------------------------
(* Properties of one invocation of runAgent, checked under SpecInvoker *)

\* duration, input-token count and output-token count are all zero
ZeroCounts(agentMetrics) ==
    /\ agentMetrics.duration = 0
    /\ agentMetrics.inputTokens = 0
    /\ agentMetrics.outputTokens = 0

\* C19: runAgent invoked with an id that has no configuration makes no
\* generation call and returns a text starting with "Error:" with zero
\* duration, input-token count and output-token count.
C19_NoConfigNoCall ==
    /\ invPc = "calling" => invAgentId \in configs
    /\ (invPc = "returned" /\ invAgentId \notin configs) =>
           /\ ~invReturn.called
           /\ invRequest = NoRequest
           /\ StartsWithError(invReturn.result)
           /\ ZeroCounts(invReturn.metrics)

\* runAgent has returned for an id of the pipeline whose configuration is missing
C19_Witness ==
    /\ invPc = "returned"
    /\ invAgentId = "expert_1"
    /\ configs = Agents \ {"expert_1"}
    /\ invReturn = ConfigNotFoundReturn

\* C20: when the generation call failed, runAgent returns a text starting with
\* "Error:" with zero duration, input-token count and output-token count.
C20_FailedCallReturnsZeroMetrics ==
    (invPc = "returned" /\ invReturn.called /\ invReturn.result = "Error") =>
        /\ StartsWithError(invReturn.result)
        /\ ZeroCounts(invReturn.metrics)

----------------------------------------------------------------------------
(* The transcripts a run keeps, checked under Spec *)

\* C21: when the loop of a run of N >= 1 iterations has ended, the live
\* discussion view is the transcript of iteration N, the record of every
\* iteration i holds the whole transcript of iteration i, and no step changes a
\* record once it is made.
C21_TranscriptsKept ==
    /\ []((LoopEnded /\ numberOfIterations >= 1) =>
             /\ Len(independentEvaluations) = numberOfIterations
             /\ discussionMessages
                    = independentEvaluations[numberOfIterations].discussionHistory
             /\ \A i \in 1..numberOfIterations :
                    FullTranscriptOf(independentEvaluations[i].discussionHistory, i))
    /\ [][\A i \in 1..Len(independentEvaluations) :
              /\ Len(independentEvaluations') >= i
              /\ independentEvaluations'[i] = independentEvaluations[i]]_vars

\* a run of two iterations has ended: the view shows the second transcript,
\* which differs from the first, and the first record still holds the first
C21_Witness ==
    /\ pc = "done"
    /\ numberOfIterations = 2
    /\ discussionMessages = independentEvaluations[2].discussionHistory
    /\ independentEvaluations[1].discussionHistory # discussionMessages
    /\ independentEvaluations[1].discussionHistory[1].message = "Error"
    /\ independentEvaluations[2].discussionHistory[1].message = "reply"

----------------------------------------------------------------------------
(* SpecSession: the handlers of the App over a session.  A run is followed *)
(* through its awaits in four steps: the initial analysis, the discussion  *)
(* (one setDiscussionMessages per message), the tracker call, the end.     *)

\* orchestration runs (runSimulation, handleRestartDiscussion) started in a session
MaxRuns == 3

\* FileReader reads in flight at once
MaxFileReads == 1

\* messages a run adds to the live view
MaxPosted == 2

Experts == DOMAIN OriginalInstructions

\* the run started last
NewRun(kind, atPc, instructions) ==
    [kind |-> kind, pc |-> atPc, instructions |-> instructions, posted |-> 0]

\* the effect on [useGeminiPro, originalAgentConfigs, isSimulating] (183-189),
\* run when isSimulating or the toggle has changed: agentConfigs is rebuilt from
\* originalAgentConfigs unless a run is marked as going on
AfterConfigEffect(simulating, current) ==
    IF ~simulating THEN OriginalInstructions ELSE current

\* setDiscussionMessages([]), setIsDiscussionLoading(true) and the progress text
\* at the head of runDiscussionAndDecision (358-386)
DiscussionStarts ==
    /\ discussionMessages' = <<>>
    /\ isDiscussionLoading' = TRUE
    /\ finalDecision' = ProgressDecision(1)

\* what a session step leaves alone of the state of the single-run model
SessionKeeps ==
    UNCHANGED <<inputVars, statVars, invVars, guardVars, pc, expertOpinions,
                independentEvaluations, iteration, turn, expertIndex,
                discussionHistory, pending, classification, summaryResult,
                failures, scoringContents, requests, metrics, phase1Metrics,
                returned>>

\* handleProposalLoad -> runSimulation up to its first await (486-512, 797-800):
\* no test of isSimulating; resetState puts the App state back
StartsSimulation ==
    /\ Len(runs) < MaxRuns
    /\ proposal' = TRUE
    /\ isSimulating' = TRUE
    /\ agentConfigs' = OriginalInstructions
    /\ discussionMessages' = <<>>
    /\ isDiscussionLoading' = TRUE
    /\ finalDecision' = initialFinalDecision
    /\ initialContext' = FALSE
    /\ frameworkMetrics' = NoFrameworkMetrics
    /\ qa' = NoQa
    /\ runs' = Append(runs, NewRun("simulation", "analysis", OriginalInstructions))
    /\ UNCHANGED useGeminiPro

\* ProposalInput.handleSampleLoad (73-77); the button is disabled while isSimulating
UseSample ==
    /\ ~isSimulating
    /\ StartsSimulation
    /\ UNCHANGED fileReads
    /\ SessionKeeps

\* ProposalInput.handleFileChange (27-71) up to reader.readAsText; the input
\* is disabled while isSimulating
ChooseFile ==
    /\ ~isSimulating
    /\ fileReads < MaxFileReads
    /\ fileReads' = fileReads + 1
    /\ UNCHANGED <<proposal, initialContext, agentConfigs, frameworkMetrics, runs,
                   useGeminiPro, qa, isSimulating, finalDecision,
                   discussionMessages, isDiscussionLoading>>
    /\ SessionKeeps

\* reader.onload with a well-formed file (33-53): onProposalLoad(data)
FileLoaded ==
    /\ fileReads > 0
    /\ fileReads' = fileReads - 1
    /\ StartsSimulation
    /\ SessionKeeps

\* reader.onload with a file that does not parse, or reader.onerror (54-69)
FileRejected ==
    /\ fileReads > 0
    /\ fileReads' = fileReads - 1
    /\ UNCHANGED <<proposal, initialContext, agentConfigs, frameworkMetrics, runs,
                   useGeminiPro, qa, isSimulating, finalDecision,
                   discussionMessages, isDiscussionLoading>>
    /\ SessionKeeps

\* runSimulation from the end of the initial analysis (553-587): the context is
\* stored and runDiscussionAndDecision starts with originalAgentConfigs
AnalysisDone(r) ==
    /\ runs[r].pc = "analysis"
    /\ initialContext' = TRUE
    /\ DiscussionStarts
    /\ runs' = [runs EXCEPT ![r].pc = "discussion"]
    /\ UNCHANGED <<proposal, agentConfigs, frameworkMetrics, fileReads,
                   useGeminiPro, qa, isSimulating>>
    /\ SessionKeeps

\* handleRestartDiscussion up to its await (617-635); the button is disabled
\* unless a proposal is loaded and neither isSimulating nor isDiscussionLoading
\* (DiscussionPanel, App 1051-1056); the run gets the agentConfigs of the moment
RestartDiscussion ==
    /\ qa.activeTab = "simulation"
    /\ proposal /\ ~isSimulating /\ ~isDiscussionLoading
    /\ initialContext
    /\ Len(runs) < MaxRuns
    /\ isSimulating' = TRUE
    /\ DiscussionStarts
    /\ runs' = Append(runs, NewRun("restart", "discussion", agentConfigs))
    /\ UNCHANGED <<proposal, initialContext, agentConfigs, frameworkMetrics,
                   fileReads, useGeminiPro, qa>>
    /\ SessionKeeps

\* an expert call of run r returns (244-296): setDiscussionMessages(prev => [...prev, message])
PostMessage(r) ==
    /\ runs[r].pc = "discussion"
    /\ runs[r].posted < MaxPosted
    /\ discussionMessages' =
           Append(discussionMessages, [run |-> r, number |-> runs[r].posted + 1])
    /\ runs' = [runs EXCEPT ![r].posted = @ + 1]
    /\ UNCHANGED <<proposal, initialContext, agentConfigs, frameworkMetrics,
                   fileReads, useGeminiPro, qa, isSimulating, finalDecision,
                   isDiscussionLoading>>
    /\ SessionKeeps

\* the transcript run r hands to setDiscussionMessages after its last iteration
TranscriptOfRun(r) == [k \in 1..MaxPosted |-> [run |-> r, number |-> k]]

\* runDiscussionAndDecision of run r returns (401-482).  runSimulation then
\* stamps totalDuration, exposes the metrics and starts the tracker call
\* (588-602); handleRestartDiscussion only clears isSimulating (635)
DiscussionDone(r) ==
    /\ runs[r].pc = "discussion"
    /\ runs[r].posted = MaxPosted
    /\ discussionMessages' = TranscriptOfRun(r)
    /\ isDiscussionLoading' = FALSE
    /\ finalDecision' = [isLoading |-> FALSE, kind |-> "result", result |-> NoResult]
    /\ IF runs[r].kind = "simulation"
       THEN /\ frameworkMetrics' = [run |-> r, totalDurationStamped |-> TRUE]
            /\ runs' = [runs EXCEPT ![r].pc = "tracker"]
            /\ UNCHANGED <<isSimulating, agentConfigs>>
       ELSE /\ isSimulating' = FALSE
            /\ agentConfigs' = AfterConfigEffect(FALSE, agentConfigs)
            /\ runs' = [runs EXCEPT ![r].pc = "ended"]
            /\ UNCHANGED frameworkMetrics
    /\ UNCHANGED <<proposal, initialContext, fileReads, useGeminiPro, qa>>
    /\ SessionKeeps

\* the tracker call of run r returns and runSimulation ends (602-613)
TrackerDone(r) ==
    /\ runs[r].pc = "tracker"
    /\ isSimulating' = FALSE
    /\ agentConfigs' = AfterConfigEffect(FALSE, agentConfigs)
    /\ runs' = [runs EXCEPT ![r].pc = "ended"]
    /\ UNCHANGED <<proposal, initialContext, frameworkMetrics, fileReads,
                   useGeminiPro, qa, finalDecision, discussionMessages,
                   isDiscussionLoading>>
    /\ SessionKeeps

\* the tab buttons (1014-1032): the Q&A tab opens only with a proposal loaded
\* and no run marked as going on
SelectTab ==
    /\ \/ qa.activeTab = "simulation" /\ proposal /\ ~isSimulating
          /\ qa' = [qa EXCEPT !.activeTab = "qa"]
       \/ qa.activeTab = "qa"
          /\ qa' = [qa EXCEPT !.activeTab = "simulation"]
    /\ UNCHANGED <<proposal, initialContext, agentConfigs, frameworkMetrics, runs,
                   fileReads, useGeminiPro, isSimulating, finalDecision,
                   discussionMessages, isDiscussionLoading>>
    /\ SessionKeeps

\* handleAskQuestion up to its first await (651-706), from the Q&A tab: it needs
\* a proposal and a final decision text that is neither empty nor an error
AskQuestion ==
    /\ qa.activeTab = "qa"
    /\ proposal
    /\ finalDecision.kind \in {"progress", "result"}
    /\ ~qa.isQaLoading
    /\ qa' = [qa EXCEPT !.isQaLoading = TRUE]
    /\ UNCHANGED <<proposal, initialContext, agentConfigs, frameworkMetrics, runs,
                   fileReads, useGeminiPro, isSimulating, finalDecision,
                   discussionMessages, isDiscussionLoading>>
    /\ SessionKeeps

\* the rest of handleAskQuestion (708-766): for every expert the update agent
\* says to update, the new instruction goes into agentConfigs and a
\* "Perspective updated" message into qaMessages
QuestionAnswered ==
    /\ qa.isQaLoading
    /\ \E updated \in SUBSET Experts :
        /\ agentConfigs' =
               [e \in Experts |-> IF e \in updated THEN "updated" ELSE agentConfigs[e]]
        /\ qa' = [qa EXCEPT !.isQaLoading = FALSE,
                            !.perspectiveUpdated = @ \cup updated]
    /\ UNCHANGED <<proposal, initialContext, frameworkMetrics, runs, fileReads,
                   useGeminiPro, isSimulating, finalDecision, discussionMessages,
                   isDiscussionLoading>>
    /\ SessionKeeps

\* the Gemini Pro toggle (ProposalInput, disabled while isSimulating) and the
\* effect it triggers (183-189)
ToggleGeminiPro ==
    /\ ~isSimulating
    /\ useGeminiPro' = ~useGeminiPro
    /\ agentConfigs' = AfterConfigEffect(isSimulating, agentConfigs)
    /\ UNCHANGED <<proposal, initialContext, frameworkMetrics, runs, fileReads, qa,
                   isSimulating, finalDecision, discussionMessages,
                   isDiscussionLoading>>
    /\ SessionKeeps

InitSession ==
    /\ numberOfIterations = 1
    /\ configs = Agents
    /\ hasUrl = FALSE
    /\ temperature = 0
    /\ useGoogleSearch = FALSE
    /\ Idle
    /\ StatsUnused
    /\ InvokerUnused
    /\ OthersUnused

NextSession ==
    \/ UseSample
    \/ ChooseFile
    \/ FileLoaded
    \/ FileRejected
    \/ RestartDiscussion
    \/ SelectTab
    \/ AskQuestion
    \/ QuestionAnswered
    \/ ToggleGeminiPro
    \/ \E r \in 1..Len(runs) : AnalysisDone(r)
    \/ \E r \in 1..Len(runs) : PostMessage(r)
    \/ \E r \in 1..Len(runs) : DiscussionDone(r)
    \/ \E r \in 1..Len(runs) : TrackerDone(r)

SpecSession == InitSession /\ [][NextSession]_vars

----------------------------------------------------------------------------
(* Properties of a session, checked under SpecSession *)

\* run r ends in this step
RunEnds(r) == runs[r].pc # "ended" /\ runs'[r].pc = "ended"

\* a restart of the discussion starts in this step
RestartStarts ==
    /\ Len(runs') = Len(runs) + 1
    /\ runs'[Len(runs')].kind = "restart"

\* C22: when a run ends, started as a simulation or as a restart of the
\* discussion, the metrics object exposed for reports is that run's, with its
\* total duration stamped.
C22_EndedRunExposesStampedMetrics ==
    [][\A r \in 1..Len(runs) :
           RunEnds(r) =>
               frameworkMetrics' = [run |-> r, totalDurationStamped |-> TRUE]]_vars

\* C27: a restart of the discussion invokes with its updated instruction every
\* expert whose instruction a Q&A exchange has updated since the proposal was loaded.
C27_RestartUsesUpdatedInstruction ==
    [][RestartStarts =>
           \A e \in qa.perspectiveUpdated :
               runs'[Len(runs')].instructions[e] = "updated"]_vars

\* C28: at most one run is in progress at any time, and the live discussion
\* view never holds messages of two runs.
C28_OneRunAtATime ==
    /\ Cardinality({r \in 1..Len(runs) : runs[r].pc # "ended"}) <= 1
    /\ \A j, k \in 1..Len(discussionMessages) :
           discussionMessages[j].run = discussionMessages[k].run

----------------------------------------------------------------------------
(* SpecGuard: truncatePromptIfNeeded applied to every text and budget within *)
(* the bounds, and then to its own result                                    *)

\* most lines of a text
MaxLines == 3

\* lengths of the lines of a text, in characters
LineLengths == {0, 1, 4, 30, 60}

\* budgets, in tokens
Budgets == {0, 1, 2, 5, 15, 20, 30, 40}

\* the texts of n lines: line j is named by its place
RECURSIVE TextsOf(_)
TextsOf(n) ==
    IF n = 0 THEN {<<>>}
    ELSE {Append(text, Line("text", <<n>>, len)) : text \in TextsOf(n - 1), len \in LineLengths}

InitGuard ==
    /\ numberOfIterations = 0
    /\ configs = Agents
    /\ hasUrl = FALSE
    /\ temperature = 0
    /\ useGoogleSearch = FALSE
    /\ Idle
    /\ StatsUnused
    /\ InvokerUnused
    /\ SessionAtStart
    /\ guardPc = "input"
    /\ guardText \in UNION {TextsOf(n) : n \in 1..MaxLines}
    /\ guardBudget \in Budgets
    /\ guardOnce = <<>>
    /\ guardTwice = <<>>

\* truncatePromptIfNeeded(guardText, guardBudget)
ApplyGuard ==
    /\ guardPc = "input"
    /\ guardOnce' = truncatePromptTo(guardText, guardBudget)
    /\ guardPc' = "once"
    /\ UNCHANGED <<inputVars, runVars, statVars, invVars, sessVars,
                   guardText, guardBudget, guardTwice>>

\* the guard applied to its own result
ApplyGuardAgain ==
    /\ guardPc = "once"
    /\ guardTwice' = truncatePromptTo(guardOnce, guardBudget)
    /\ guardPc' = "twice"
    /\ UNCHANGED <<inputVars, runVars, statVars, invVars, sessVars,
                   guardText, guardBudget, guardOnce>>

NextGuard == ApplyGuard \/ ApplyGuardAgain

SpecGuard == InitGuard /\ [][NextGuard]_vars

----------------------------------------------------------------------------
(* Properties of the guard, checked under SpecGuard *)

\* estimate(t) = ceil(length(t) / 4)
Estimate(text) == countTokens(TextLength(text))

\* what the guard puts before the remainder: the marker and its two newlines;
\* the remainder, when not empty, starts with a newline of the text and so
\* goes on from the empty last line
MarkerText == <<MarkerLine, BlankLine, BlankLine>>

Applied == guardPc \in {"once", "twice"}

\* C23: a text within the budget comes back unchanged; the estimate of a text
\* that was cut is at most the budget plus the estimate of the marker the
\* guard adds (with its newlines).
C23_TruncationBound ==
    Applied =>
        /\ Estimate(guardText) <= guardBudget => guardOnce = guardText
        /\ Estimate(guardText) > guardBudget =>
               Estimate(guardOnce) <= guardBudget + Estimate(MarkerText)

\* a text over a positive budget was cut and its result reaches the bound
\* exactly
C23_Witness ==
    /\ Applied
    /\ Estimate(guardText) > guardBudget
    /\ guardBudget > 0
    /\ Estimate(guardOnce) = guardBudget + Estimate(MarkerText)

\* C24: for a budget not larger than the estimate of the text, the guard
\* applied to its own result gives that result again.
C24_TruncationIdempotent ==
    (guardPc = "twice" /\ guardBudget <= Estimate(guardText)) =>
        guardTwice = guardOnce

\* the character offset (estimate(s) - k) * 4
CutOffset == (Estimate(guardText) - guardBudget) * 4

\* C25: when the guard cuts, its result is the marker followed by the part of
\* the text from the first newline at or after the offset: whole lines from the
\* end of the text, none cut in its middle, as many as start at or after that
\* newline; without a newline at or after the offset the result is the marker alone.
C25_SuffixFromFirstLineBoundary ==
    (Applied /\ Estimate(guardText) > guardBudget) =>
        LET kept == Len(guardOnce) - 3
            dropped == Len(guardText) - kept
        IN  /\ SubSeq(guardOnce, 1, 3) = MarkerText
            /\ kept \in 0..(Len(guardText) - 1)
            /\ SubSeq(guardOnce, 4, Len(guardOnce))
                   = SubSeq(guardText, dropped + 1, Len(guardText))
            /\ kept > 0 =>
                   /\ NewlineAfter(guardText, dropped) >= CutOffset
                   /\ dropped > 1 => NewlineAfter(guardText, dropped - 1) < CutOffset
            /\ kept = 0 =>
                   /\ guardOnce = MarkerText
                   /\ \A j \in 1..(Len(guardText) - 1) :
                          NewlineAfter(guardText, j) < CutOffset

\* a text of three lines was cut after its first line, though later newlines
\* also lie at or after the offset
C25_Witness ==
    /\ Applied
    /\ Estimate(guardText) > guardBudget
    /\ Len(guardText) = 3
    /\ Len(guardOnce) = 5
    /\ guardOnce[5] = guardText[3]
    /\ guardText[1].len > 0

----------------------------------------------------------------------------
(* The initial analysis, checked under Spec *)

\* the summarization step of a run: the page fetch, then the summarization call
SummarizationCalls == {Call("fetch", 0), Call(summarizeAgentId, 0)}

\* the run is in its discussion, or past it
DiscussionReached == pc \in {"expert", "delay", "score", "tracker", "done"}

\* C26: a run that starts its analysis has the classification call and the
\* summarization step under way together; the discussion is reached only when
\* neither is under way any more and both have left their result; and the
\* prompt of the first discussion call starts with the proposal and has the
\* lines of the context that carry the two results.
C26_ContextAfterBothResults ==
    /\ [](DiscussionReached =>
             /\ classification \notin {"none", "pending"}
             /\ summaryResult # ""
             /\ Call(classificationAgent, 0) \notin pending
             /\ pending \cap SummarizationCalls = {})
    /\ [](\A r \in requests :
             r.ref = <<1, 0, 1>> =>
                 /\ r.prompt[1] = ProposalLine
                 /\ \E j \in 1..Len(r.prompt) :
                        /\ r.prompt[j].part = "classification"
                        /\ r.prompt[j].len = 26 + ResultChars(classification)
                 /\ \E j \in 1..Len(r.prompt) :
                        /\ r.prompt[j].part = "summary"
                        /\ r.prompt[j].len = 31 + ResultChars(summaryResult))
    /\ [][(pc = "idle" /\ pc' \notin {"idle", "aborted"}) =>
             /\ Call(classificationAgent, 0) \in pending'
             /\ pending' \cap SummarizationCalls # {}]_vars

\* the first discussion call is in flight after a classification that failed
\* and a summary that did not: the two results differ and both are in the context
C26_Witness ==
    /\ pc = "expert"
    /\ \E r \in requests : r.ref = <<1, 0, 1>>
    /\ classification = "Error"
    /\ summaryResult = "reply"

----------------------------------------------------------------------------
(* The totals of a run and its per-agent entries, checked under SpecSettings *)

\* the sums of the token and search counts over the entries of the agents in
\* ids; an entry without googleSearchUsage counts no query and no source
RECURSIVE SumOfEntries(_, _)
SumOfEntries(breakdown, ids) ==
    IF ids = {} THEN [inputTokens |-> 0, outputTokens |-> 0,
                      queriesCount |-> 0, sourcesCount |-> 0]
    ELSE LET a == CHOOSE x \in ids : TRUE
             rest == SumOfEntries(breakdown, ids \ {a})
         IN  [inputTokens |-> rest.inputTokens + breakdown[a].inputTokens,
              outputTokens |-> rest.outputTokens + breakdown[a].outputTokens,
              queriesCount |-> rest.queriesCount
                                   + breakdown[a].googleSearchUsage.queriesCount,
              sourcesCount |-> rest.sourcesCount
                                   + breakdown[a].googleSearchUsage.sourcesCount]

BreakdownSums == SumOfEntries(metrics.agentBreakdown, DOMAIN metrics.agentBreakdown)

\* C29: in every state of a run (each lies between two agent calls or after
\* the last) totalInputTokens is the sum of the input-token counts of the
\* entries of the breakdown, and totalOutputTokens the sum of their
\* output-token counts.
C29_TokenTotalsAreSumsOfEntries ==
    /\ metrics.totalInputTokens = BreakdownSums.inputTokens
    /\ metrics.totalOutputTokens = BreakdownSums.outputTokens

\* the second iteration is between two expert calls: the breakdown has the two
\* analysis agents, the scoring agent and the experts, and the totals are not zero
C29_Witness ==
    /\ pc = "delay"
    /\ iteration = 2
    /\ {classificationAgent, summarizeAgentId, finalAgentId, "expert_1", "expert_2"}
           \subseteq DOMAIN metrics.agentBreakdown
    /\ metrics.totalInputTokens > 0
    /\ metrics.totalOutputTokens > metrics.agentBreakdown["expert_1"].outputTokens

\* C30: in every state of a run totalQueries and totalSources of the search
\* summary are the sums of the query and source counts of the entries of the
\* breakdown (every returned metrics object that has used = false has zero counts).
C30_SearchSummaryAgreesWithBreakdown ==
    /\ \A a \in Agents : \A n \in 1..Len(returned[a]) :
           ~returned[a][n].googleSearchUsage.used =>
               /\ returned[a][n].googleSearchUsage.queriesCount = 0
               /\ returned[a][n].googleSearchUsage.sourcesCount = 0
    /\ metrics.googleSearchSummary.totalQueries = BreakdownSums.queriesCount
    /\ metrics.googleSearchSummary.totalSources = BreakdownSums.sourcesCount

\* with the search enabled the run is between two expert calls; a call of
\* expert_1 came back without a search and another with one, and expert_2
\* has searched as well
C30_Witness ==
    /\ pc = "delay"
    /\ useGoogleSearch
    /\ \E n \in 1..Len(returned["expert_1"]) :
           ~returned["expert_1"][n].googleSearchUsage.used
    /\ \E n \in 1..Len(returned["expert_1"]) :
           returned["expert_1"][n].googleSearchUsage.used
    /\ "expert_2" \in DOMAIN metrics.agentBreakdown
    /\ metrics.agentBreakdown["expert_2"].googleSearchUsage.used
    /\ metrics.googleSearchSummary.totalQueries >= 2
    /\ metrics.googleSearchSummary.totalSources >= 4

====
